---- MODULE Spec2Model ----
(***************************************************************************)
(* State-machine model of the Telegram course bot (src/main.py) with its   *)
(* record store (src/airtable_service.py), the get_user result cache       *)
(* (src/cache.py), the in-memory conversation and review maps, the         *)
(* keyboards (src/utils.py) and the placement / assessment oracle          *)
(* (src/conversation_service.py).                                          *)
(*                                                                         *)
(* One action per inbound event; an action is the whole handler, from the  *)
(* user lookup to the last write-back.                                     *)
(***************************************************************************)
EXTENDS Integers, Sequences, FiniteSets, TLC

(***************************************************************************)
(* Bounds                                                                  *)
(***************************************************************************)
\* longest conversation_history a free-text event is still accepted for
MaxHist == 4

Users == {"u1"}

\* most review-end handlers of one user waiting at a time
MaxSuspended == 1

\* most rows of the videos table in SpecProjector
MaxVideos == 3

\* longest conversation_history within the first lesson
MaxFirstHist == 2

\* longest conversation_history a summary is rendered for
MaxSummaryHist == 6

(***************************************************************************)
(* Configuration (src/config.py) and enumerations (src/models.py)          *)
(***************************************************************************)
MAX_VIDEOS_PER_LEVEL == 2

PLACEMENT_TEST == "Placement Test"
SHOWING_VIDEO == "Showing Video"
WAITING_FOR_RESPONSE == "Waiting for Response"
CHAT_MODE == "Chat Mode"
COURSE_OVERVIEW == "Course Overview"

UserState == {PLACEMENT_TEST, SHOWING_VIDEO, WAITING_FOR_RESPONSE, CHAT_MODE, COURSE_OVERVIEW}

USER_LEVELS == [ENTRY |-> "Entry", BEGINNER |-> "Beginner",
                INTERMEDIATE |-> "Intermediate", ADVANCED |-> "Advanced"]

LEVEL_PROGRESSION == [Beginner |-> "Intermediate",
                      Intermediate |-> "Advanced",
                      Advanced |-> "Advanced"]

UNDERSTOOD_BUTTON == "Verstanden!"
OVERVIEW_BUTTON == "Kursuebersicht"
FALLBACK_RESPONSE == "Thank you for your response. We're having technical difficulties with assessment right now."

\* inbound message texts: the two reserved phrases and one free text
FreeText == "free text"
Texts == {UNDERSTOOD_BUTTON, OVERVIEW_BUTTON, FreeText}

(***************************************************************************)
(* The video table.  Entry holds the welcome video only and Intermediate   *)
(* has a single lesson, so positions (Entry,0), (Entry,2) and              *)
(* (Intermediate,2) have no video record.                                  *)
(***************************************************************************)
Catalog == <<
  [id |-> "recE1", level |-> "Entry",        video_number |-> 1],
  [id |-> "recB1", level |-> "Beginner",     video_number |-> 1],
  [id |-> "recB2", level |-> "Beginner",     video_number |-> 2],
  [id |-> "recI1", level |-> "Intermediate", video_number |-> 1],
  [id |-> "recA1", level |-> "Advanced",     video_number |-> 1],
  [id |-> "recA2", level |-> "Advanced",     video_number |-> 2] >>

NoVideo == [id |-> "", level |-> "", video_number |-> 0]

(***************************************************************************)
(* Values of the per-user maps.  "present" is membership in the Python     *)
(* dict (or existence of the row in the users table).                      *)
(***************************************************************************)
NoUser == [present |-> FALSE, level |-> "", video_number |-> 0, state |-> ""]

NoContext == [present |-> FALSE, video_record_id |-> "", conversation_history |-> <<>>]

NoSession == [present |-> FALSE, original_level |-> "", original_video_number |-> 0,
              review_video_id |-> ""]

\* an absent (or expired) entry of a SimpleCache
NoEntry == [present |-> FALSE, data |-> <<>>]

\* the positions an overview is requested for in SpecOverview
OverviewKeys == {<<"Beginner", 1>>, <<"Advanced", 1>>}

VARIABLES
  users_table,            \* record store: user id -> row (Level, Video Number, State)
  get_user_cache,         \* result cache of get_user: user id -> the cached dict
  user_conversations,     \* user id -> VideoConversationContext
  user_review_sessions,   \* user id -> review session
  buttons,                \* user id -> select_video buttons sent to the user so far
  last,                   \* the event handled last, with what its handler did
  videos_table,           \* record store: the rows of the videos table
  get_videos_cache,       \* result cache of get_videos() (all videos)
  video_cache,            \* video_cache entries "course_overview:<level>:<n>"
  suspended,              \* user id -> review-end handlers waiting in safe_update_user
  user_records            \* user id -> number of rows of the users table with this Telegram ID

vars == <<users_table, get_user_cache, user_conversations, user_review_sessions, buttons, last,
          videos_table, get_videos_cache, video_cache, suspended, user_records>>

\* The videos table is the fixed Catalog in every specification but
\* SpecOverview: with a table that does not change, a cached read returns
\* what the read itself returns, and the read caches are left empty there.
store_caches == <<videos_table, get_videos_cache, video_cache>>

(***************************************************************************)
(* Record store reads (src/airtable_service.py, src/utils.py)              *)
(***************************************************************************)
\* get_videos(level, video_number) with both filters
get_videos(level, video_number) ==
  LET Match(v) == v.level = level /\ v.video_number = video_number
  IN SelectSeq(Catalog, Match)

\* VideoManager.get_video_info_cached: first matching row, or None
get_video_info(user_level, video_number) ==
  LET videos == get_videos(user_level, video_number)
  IN IF Len(videos) > 0 THEN videos[1] ELSE NoVideo

\* the loop of handle_video_selection_callback over get_videos()
find_video_by_id(video_record_id) ==
  LET Match(v) == v.id = video_record_id
      found == SelectSeq(Catalog, Match)
  IN IF Len(found) > 0 THEN found[1] ELSE NoVideo

\* get_user behind @cached: the cached dict while its TTL runs, else the row
get_user(user_id, hit) ==
  IF get_user_cache[user_id].present /\ hit
    THEN get_user_cache[user_id]
    ELSE users_table[user_id]

(***************************************************************************)
(* CourseProgressionPolicy                                                 *)
(***************************************************************************)
\* variant: the top level has no entry in the progression table
get_next_level_without_ceiling(current_level) ==
  IF current_level \in {"Beginner", "Intermediate"}
    THEN LEVEL_PROGRESSION[current_level]
    ELSE USER_LEVELS.BEGINNER

get_next_level(current_level) ==
  IF current_level \in DOMAIN LEVEL_PROGRESSION
    THEN LEVEL_PROGRESSION[current_level]
    ELSE USER_LEVELS.BEGINNER

\* variant: the level changes one video early (>= for >)
advance_one_video_early(level, video_number, max_per_level) ==
  IF video_number + 1 >= max_per_level
    THEN [level |-> get_next_level(level), video_number |-> 1]
    ELSE [level |-> level, video_number |-> video_number + 1]

\* the position computed at the top of handle_next_video_from_reply /
\* handle_next_video_callback
advance(level, video_number, max_per_level) ==
  IF video_number + 1 > max_per_level
    THEN [level |-> get_next_level(level), video_number |-> 1]
    ELSE [level |-> level, video_number |-> video_number + 1]

(***************************************************************************)
(* ConversationManager                                                     *)
(***************************************************************************)
NewContext(video_data) ==
  [present |-> TRUE, video_record_id |-> video_data.id, conversation_history |-> <<>>]

get_or_create_context(context, video_data) ==
  IF ~context.present THEN NewContext(video_data) ELSE context

update_context_for_video(context, video_data) == NewContext(video_data)

add_message(context, role, content) ==
  IF context.present
    THEN [context EXCEPT !.conversation_history =
                            Append(@, [role |-> role, content |-> content])]
    ELSE context

(***************************************************************************)
(* VideoConversationContext.get_conversation_summary (src/models.py).      *)
(* A text is the sequence of its lines ("\n".split): the empty string is   *)
(* the one empty line, a message of two lines has two elements.            *)
(***************************************************************************)
EmptyText == <<"">>

role_label(role) == IF role = "user" THEN "User" ELSE "Assistant"

\* f"{role_label}: {msg.content}"
summary_part(msg) ==
  <<role_label(msg.role) \o ": " \o msg.content[1]>> \o Tail(msg.content)

\* "\n".join(summary_parts)
RECURSIVE join_lines(_)
join_lines(parts) ==
  IF parts = <<>> THEN EmptyText
  ELSE IF Len(parts) = 1 THEN parts[1]
  ELSE parts[1] \o join_lines(Tail(parts))

\* conversation_history[-5:]
last_five(conversation_history) ==
  SubSeq(conversation_history,
         IF Len(conversation_history) > 5 THEN Len(conversation_history) - 4 ELSE 1,
         Len(conversation_history))

\* variant: the first five messages are rendered (history[:5])
get_conversation_summary_of_first_five(context) ==
  IF context.conversation_history = <<>> THEN EmptyText
  ELSE LET shown == SubSeq(context.conversation_history, 1,
                           IF Len(context.conversation_history) > 5 THEN 5
                           ELSE Len(context.conversation_history))
       IN join_lines([i \in 1..Len(shown) |-> summary_part(shown[i])])

get_conversation_summary(context) ==
  IF context.conversation_history = <<>> THEN EmptyText
  ELSE LET shown == last_five(context.conversation_history)
       IN join_lines([i \in 1..Len(shown) |-> summary_part(shown[i])])

(***************************************************************************)
(* Oracle (src/conversation_service.py)                                    *)
(***************************************************************************)
\* what the placement model may answer: a valid label, another word, or an error
PlacementAnswers == {"Beginner", "Intermediate", "Advanced", "Expert", "error"}

define_placement_group(answer) ==
  IF answer \in {"Beginner", "Intermediate", "Advanced"}
    THEN [raised |-> FALSE, result |-> answer]
    ELSE [raised |-> TRUE, result |-> ""]

level_map == <<"Beginner", "Intermediate", "Advanced">>

\* variant: the oracle's failure is not replaced by a random level
assess_placement_test_without_fallback(answer, random_number) ==
  IF answer = "error" THEN "" ELSE answer

assess_placement_test(answer, random_number) ==
  LET r == define_placement_group(answer)
  IN IF ~r.raised THEN r.result ELSE level_map[random_number]

\* what the assessment model may do: answer, or fail
AssessmentAnswers == {"feedback", "error"}

assess_video_response(answer) ==
  IF answer = "error" THEN FALLBACK_RESPONSE ELSE answer

(***************************************************************************)
(* KeyboardFactory.create_course_overview_keyboard (src/utils.py)          *)
(***************************************************************************)
level_order == <<"Entry", "Beginner", "Intermediate", "Advanced">>

InSeq(x, s) == \E i \in DOMAIN s : s[i] = x

\* keys of videos_by_level, in the order the levels are first met
RECURSIVE videos_by_level_keys(_)
videos_by_level_keys(videos) ==
  IF videos = <<>> THEN <<>>
  ELSE LET front == videos_by_level_keys(SubSeq(videos, 1, Len(videos) - 1))
           level == videos[Len(videos)].level
       IN IF InSeq(level, front) THEN front ELSE Append(front, level)

\* variant: the levels stay in the order they are met in the table
sorted_levels_as_met(videos) == videos_by_level_keys(videos)

sorted_levels(videos) ==
  LET keys == videos_by_level_keys(videos)
      Known(l) == InSeq(l, keys)
      standard == SelectSeq(level_order, Known)
      Other(l) == ~InSeq(l, standard)
  IN standard \o SelectSeq(keys, Other)

\* sorted(level_videos, key=Video Number): stable
RECURSIVE sort_by_video_number(_)
sort_by_video_number(videos) ==
  IF videos = <<>> THEN <<>>
  ELSE LET v == videos[Len(videos)]
           front == sort_by_video_number(SubSeq(videos, 1, Len(videos) - 1))
           NotAfter(w) == w.video_number <= v.video_number
           After(w) == w.video_number > v.video_number
       IN SelectSeq(front, NotAfter) \o <<v>> \o SelectSeq(front, After)

sorted_level_videos(videos, level) ==
  LET OfLevel(v) == v.level = level
  IN sort_by_video_number(SelectSeq(videos, OfLevel))

\* the buttons of one level; current_level_reached is the flag on loop entry
level_buttons(videos, level, user_level, current_video_number, current_level_reached) ==
  LET is_current_level == level = user_level
      should_show_button(v) ==
        IF is_current_level THEN v.video_number <= current_video_number
        ELSE ~current_level_reached
      shown == SelectSeq(sorted_level_videos(videos, level), should_show_button)
  IN [j \in 1..Len(shown) |->
        [video_record_id |-> shown[j].id,
         is_review |-> (is_current_level /\ shown[j].video_number < current_video_number)
                         \/ ~current_level_reached]]

RECURSIVE keyboard_loop(_, _, _, _, _)
keyboard_loop(videos, levels, user_level, current_video_number, current_level_reached) ==
  IF levels = <<>> THEN <<>>
  ELSE level_buttons(videos, levels[1], user_level, current_video_number, current_level_reached)
       \o keyboard_loop(videos, Tail(levels), user_level, current_video_number,
                        current_level_reached \/ levels[1] = user_level)

create_course_overview_keyboard(user_level, current_video_number) ==
  keyboard_loop(Catalog, sorted_levels(Catalog), user_level, current_video_number, FALSE)

SeqToSet(s) == {s[i] : i \in DOMAIN s}

(***************************************************************************)
(* generate_course_overview_text (src/main.py).  The text is the sequence  *)
(* of its lines: the title, per level a header, one line per video with    *)
(* its status, an empty line, and the progress line at the end.            *)
(***************************************************************************)
Line(kind, level, video_number, status) ==
  [line |-> kind, level |-> level, video_number |-> video_number, status |-> status]

\* the status indicator of one video
overview_status(is_current_level, current_level_reached, video_num, current_video_number) ==
  IF is_current_level
    THEN IF video_num < current_video_number THEN "completed"
         ELSE IF video_num = current_video_number THEN "current"
         ELSE "upcoming"
    ELSE IF ~current_level_reached THEN "completed" ELSE "upcoming"

\* header and video lines of one level
overview_level_lines(videos, level, user_level, current_video_number, current_level_reached) ==
  LET level_videos == sorted_level_videos(videos, level)
      header == IF level = user_level THEN "current level" ELSE "level"
  IN <<Line(header, level, 0, "")>>
     \o [j \in 1..Len(level_videos) |->
           Line("video", level, level_videos[j].video_number,
                overview_status(level = user_level, current_level_reached,
                                level_videos[j].video_number, current_video_number))]
     \o <<Line("", "", 0, "")>>

RECURSIVE overview_loop(_, _, _, _, _)
overview_loop(videos, levels, user_level, current_video_number, current_level_reached) ==
  IF levels = <<>> THEN <<>>
  ELSE overview_level_lines(videos, levels[1], user_level, current_video_number,
                            current_level_reached)
       \o overview_loop(videos, Tail(levels), user_level, current_video_number,
                        current_level_reached \/ levels[1] = user_level)

\* variant: the percentage is cut off (int())
progress_percentage_truncated(total_completed_videos, total_videos) ==
  (100 * total_completed_videos) \div total_videos

\* f"{total_completed_videos / total_videos * 100:.0f}": rounded to the
\* nearest integer, a half to the even one
progress_percentage(total_completed_videos, total_videos) ==
  LET q == (100 * total_completed_videos) \div total_videos
      r == (100 * total_completed_videos) % total_videos
  IN IF 2 * r > total_videos \/ (2 * r = total_videos /\ q % 2 = 1) THEN q + 1 ELSE q

\* the text computed from all_videos (not empty)
overview_text(all_videos, user_level, current_video_number) ==
  LET body == overview_loop(all_videos, sorted_levels(all_videos), user_level,
                            current_video_number, FALSE)
      IsCompleted(l) == l.status = "completed"
      total_completed_videos == Len(SelectSeq(body, IsCompleted))
  IN <<Line("title", "", 0, "")>> \o body
     \o <<Line("progress", "", total_completed_videos,
               progress_percentage(total_completed_videos, Len(all_videos)))>>

NO_VIDEOS_FOUND == <<Line("title", "", 0, ""), Line("no videos", "", 0, "")>>

\* get_videos() behind @cached: the cached list, if there is one (an empty
\* list is a result like any other), else the rows of the table, which are
\* then cached
cached_get_videos ==
  IF get_videos_cache.present
    THEN [result |-> get_videos_cache.data, cache |-> get_videos_cache]
    ELSE [result |-> videos_table, cache |-> [present |-> TRUE, data |-> videos_table]]

\* the whole function: the cached text under the key of (level, number) if
\* there is one, else the text computed from get_videos(), cached for five
\* minutes; result and both caches afterwards
generate_course_overview_text(user_level, current_video_number) ==
  LET cache_key == <<user_level, current_video_number>>
      cached_data == video_cache[cache_key]
      read == cached_get_videos
      all_videos == read.result
      result == overview_text(all_videos, user_level, current_video_number)
  IN IF cached_data.present
       THEN [result |-> cached_data.data, get_videos_cache |-> get_videos_cache,
             video_cache |-> video_cache]
     ELSE IF all_videos = <<>>
       THEN [result |-> NO_VIDEOS_FOUND, get_videos_cache |-> read.cache,
             video_cache |-> video_cache]
     ELSE [result |-> result, get_videos_cache |-> read.cache,
           video_cache |-> [video_cache EXCEPT ![cache_key] =
                              [present |-> TRUE, data |-> result]]]

(***************************************************************************)
(* Handlers (src/main.py).  A handler works on a context e:                *)
(*   user     the dict returned by get_user, mutated in place              *)
(*   row      the user's row in the users table                            *)
(*   conv     user_conversations[user_id]                                  *)
(*   review   user_review_sessions[user_id]                                *)
(*   buttons  select_video buttons the user holds                          *)
(*   inserted rows the handler has added to the users table                *)
(*   out      replies sent and store writes made, in order                 *)
(***************************************************************************)
Emit(e, kind, arg) == [e EXCEPT !.out = Append(@, [kind |-> kind, arg |-> arg])]

\* update_user writes every field of the dict to the row; ok = FALSE is a
\* failed write, reported by the return value only
safe_update_user(e, ok) ==
  IF ok /\ e.row.present
    THEN [Emit(e, "update_user", e.user.state) EXCEPT !.row = e.user]
    ELSE Emit(e, "update_user_failed", e.user.state)

\* variant: the lesson is presented but the state is left as it is
handle_showing_video_state_without_transition(e, ok) ==
  LET video_info == get_video_info(e.user.level, e.user.video_number)
  IN IF video_info # NoVideo
       THEN safe_update_user(Emit(Emit(e, "lesson", video_info.id),
                                  "question", video_info.id), ok)
       ELSE Emit(e, "reply", "VIDEO_NOT_FOUND")

handle_showing_video_state(e, ok) ==
  LET video_info == get_video_info(e.user.level, e.user.video_number)
  IN IF video_info # NoVideo
       THEN LET e1 == Emit(Emit(e, "lesson", video_info.id), "question", video_info.id)
                e2 == [e1 EXCEPT !.user.state = WAITING_FOR_RESPONSE]
            IN safe_update_user(e2, ok)
       ELSE Emit(e, "reply", "VIDEO_NOT_FOUND")

\* variant: the placement assigns the level and leaves the video number
handle_placement_test_state_keeping_number(e, answer, random_number, ok) ==
  LET placement_group == assess_placement_test(answer, random_number)
      e1 == [e EXCEPT !.user.level = placement_group,
                      !.user.state = SHOWING_VIDEO]
  IN safe_update_user(Emit(e1, "reply", "READY"), ok)

handle_placement_test_state(e, answer, random_number, ok) ==
  LET placement_group == assess_placement_test(answer, random_number)
      e1 == [e EXCEPT !.user.level = placement_group,
                      !.user.state = SHOWING_VIDEO,
                      !.user.video_number = 1]
  IN safe_update_user(Emit(e1, "reply", "READY"), ok)

\* the assessment-and-record cycle shared by WaitingForResponse and ChatMode
record_exchange(e, context, video_data, text, answer) ==
  LET bot_response == assess_video_response(answer)
      c1 == add_message(context, "user", text)
      c2 == add_message(c1, "assistant", bot_response)
  IN Emit([e EXCEPT !.conv = c2], "feedback", bot_response)

\* variant: the context is looked up, as in ChatMode, instead of created
handle_waiting_for_response_state_without_context(e, text, answer, ok) ==
  LET video_data == get_video_info(e.user.level, e.user.video_number)
      e1 == IF video_data # NoVideo
              THEN record_exchange(e, e.conv, video_data, text, answer)
              ELSE Emit(e, "reply", "THANKS")
  IN safe_update_user([e1 EXCEPT !.user.state = CHAT_MODE], ok)

handle_waiting_for_response_state(e, text, answer, ok) ==
  LET video_data == get_video_info(e.user.level, e.user.video_number)
      e1 == IF video_data # NoVideo
              THEN record_exchange(e, get_or_create_context(e.conv, video_data),
                                   video_data, text, answer)
              ELSE Emit(e, "reply", "THANKS")
  IN safe_update_user([e1 EXCEPT !.user.state = CHAT_MODE], ok)

handle_chat_mode_state(e, text, answer) ==
  LET video_data == get_video_info(e.user.level, e.user.video_number)
  IN IF video_data # NoVideo
       THEN record_exchange(e, e.conv, video_data, text, answer)
       ELSE Emit(e, "reply", "YOU_SAID")

\* variant: the general question ends the conversation about the lesson
handle_course_overview_state_dropping_context(e) ==
  Emit([e EXCEPT !.conv = NoContext], "reply", "COURSE_QUESTION")

handle_course_overview_state(e) == Emit(e, "reply", "COURSE_QUESTION")

\* variant: the context of the previous video is kept
handle_next_video_from_reply_keeping_context(e, ok1, ok2) ==
  LET next == advance(e.user.level, e.user.video_number, MAX_VIDEOS_PER_LEVEL)
      e1 == IF e.user.video_number + 1 > MAX_VIDEOS_PER_LEVEL
              THEN Emit(e, "congratulations", next.level)
              ELSE e
      e2 == safe_update_user([e1 EXCEPT !.user.level = next.level,
                                        !.user.video_number = next.video_number,
                                        !.user.state = SHOWING_VIDEO], ok1)
  IN handle_showing_video_state(e2, ok2)

handle_next_video_from_reply(e, ok1, ok2) ==
  LET next == advance(e.user.level, e.user.video_number, MAX_VIDEOS_PER_LEVEL)
      e1 == IF e.user.video_number + 1 > MAX_VIDEOS_PER_LEVEL
              THEN Emit(e, "congratulations", next.level)
              ELSE e
      e2 == safe_update_user([e1 EXCEPT !.user.level = next.level,
                                        !.user.video_number = next.video_number,
                                        !.user.state = SHOWING_VIDEO], ok1)
      video_data == get_video_info(next.level, next.video_number)
      e3 == IF video_data # NoVideo
              THEN [e2 EXCEPT !.conv = update_context_for_video(@, video_data)]
              ELSE e2
  IN handle_showing_video_state(e3, ok2)

\* variant: the congratulation follows the lesson
handle_next_video_callback_congratulating_last(e, ok1, ok2) ==
  LET next == advance(e.user.level, e.user.video_number, MAX_VIDEOS_PER_LEVEL)
      e2 == safe_update_user([e EXCEPT !.user.level = next.level,
                                       !.user.video_number = next.video_number,
                                       !.user.state = SHOWING_VIDEO], ok1)
      video_data == get_video_info(next.level, next.video_number)
      e3 == IF video_data # NoVideo
              THEN [e2 EXCEPT !.conv = update_context_for_video(@, video_data)]
              ELSE e2
      e4 == handle_showing_video_state(Emit(e3, "callback_answer", "NEXT_VIDEO_LOADING"), ok2)
  IN IF e.user.video_number + 1 > MAX_VIDEOS_PER_LEVEL
       THEN Emit(e4, "congratulations", next.level)
       ELSE e4

handle_next_video_callback(e, ok1, ok2) ==
  LET next == advance(e.user.level, e.user.video_number, MAX_VIDEOS_PER_LEVEL)
      e1 == IF e.user.video_number + 1 > MAX_VIDEOS_PER_LEVEL
              THEN Emit(e, "congratulations", next.level)
              ELSE e
      e2 == safe_update_user([e1 EXCEPT !.user.level = next.level,
                                        !.user.video_number = next.video_number,
                                        !.user.state = SHOWING_VIDEO], ok1)
      video_data == get_video_info(next.level, next.video_number)
      e3 == IF video_data # NoVideo
              THEN [e2 EXCEPT !.conv = update_context_for_video(@, video_data)]
              ELSE e2
  IN handle_showing_video_state(Emit(e3, "callback_answer", "NEXT_VIDEO_LOADING"), ok2)

handle_ready_callback(e, ok) ==
  handle_showing_video_state(Emit(e, "callback_answer", "VIDEO_LOADING"), ok)

handle_video_selection_callback(e, video_record_id, is_review, ok1, ok2) ==
  LET video_info == find_video_by_id(video_record_id)
      original_level == e.user.level
      original_video_number == e.user.video_number
      e1 == [e EXCEPT !.user.level = video_info.level,
                      !.user.video_number = video_info.video_number,
                      !.user.state = SHOWING_VIDEO]
      e2 == IF ~is_review
              THEN safe_update_user(e1, ok1)
              ELSE [e1 EXCEPT !.review =
                      [present |-> TRUE,
                       original_level |-> original_level,
                       original_video_number |-> original_video_number,
                       review_video_id |-> video_record_id]]
      e3 == [e2 EXCEPT !.conv = update_context_for_video(@, video_info)]
  IN IF video_info = NoVideo
       THEN Emit(e, "callback_answer", "VIDEO_NOT_FOUND")
       ELSE handle_showing_video_state(Emit(e3, "callback_answer", "LOADING"), ok2)

\* variant: the overview is sent first and the state written afterwards
handle_overview_button_replying_first(e, ok) ==
  LET overview_keyboard == create_course_overview_keyboard(e.user.level, e.user.video_number)
      e1 == [Emit(e, "overview", e.user.level)
               EXCEPT !.buttons = @ \cup SeqToSet(overview_keyboard)]
  IN safe_update_user([e1 EXCEPT !.user.state = COURSE_OVERVIEW], ok)

\* variant: opening the overview ends a review in progress
handle_overview_button_ending_review(e, ok) ==
  LET overview_keyboard == create_course_overview_keyboard(e.user.level, e.user.video_number)
      e1 == safe_update_user([e EXCEPT !.user.state = COURSE_OVERVIEW,
                                       !.review = NoSession], ok)
  IN [Emit(e1, "overview", e.user.level)
        EXCEPT !.buttons = @ \cup SeqToSet(overview_keyboard)]

handle_overview_button(e, ok) ==
  LET overview_keyboard == create_course_overview_keyboard(e.user.level, e.user.video_number)
      e1 == safe_update_user([e EXCEPT !.user.state = COURSE_OVERVIEW], ok)
  IN [Emit(e1, "overview", e.user.level)
        EXCEPT !.buttons = @ \cup SeqToSet(overview_keyboard)]

\* variant: the review session is deleted but the position is not restored
handle_understood_without_restore(e, ok1, ok2) ==
  IF e.review.present
    THEN Emit([safe_update_user(e, ok1) EXCEPT !.review = NoSession], "reply", "REVIEW_ENDED")
    ELSE handle_next_video_from_reply(Emit(e, "reply", "NEXT_VIDEO_START"), ok1, ok2)

\* variant: the review session is not deleted after the restore
handle_understood_keeping_session(e, ok1, ok2) ==
  IF e.review.present
    THEN LET e1 == [e EXCEPT !.user.level = e.review.original_level,
                             !.user.video_number = e.review.original_video_number]
         IN Emit(safe_update_user(e1, ok1), "reply", "REVIEW_ENDED")
    ELSE handle_next_video_from_reply(Emit(e, "reply", "NEXT_VIDEO_START"), ok1, ok2)

\* the "Verstanden!" branch of handle_message
handle_understood(e, ok1, ok2) ==
  IF e.review.present
    THEN LET e1 == [e EXCEPT !.user.level = e.review.original_level,
                             !.user.video_number = e.review.original_video_number]
             e2 == safe_update_user(e1, ok1)
         IN Emit([e2 EXCEPT !.review = NoSession], "reply", "REVIEW_ENDED")
    ELSE handle_next_video_from_reply(Emit(e, "reply", "NEXT_VIDEO_START"), ok1, ok2)

(***************************************************************************)
(* Events.  Each action is one inbound event of user_id: the lookup of the *)
(* user (get_user), the handler, and the resulting stores.                 *)
(***************************************************************************)
Context(user_id, user) ==
  [user |-> user,
   row |-> users_table[user_id],
   conv |-> user_conversations[user_id],
   review |-> user_review_sessions[user_id],
   buttons |-> buttons[user_id],
   inserted |-> 0,
   new_user |-> NoUser,
   out |-> <<>>]

\* variant: a row is created whether or not the lookup finds the user
create_user_without_lookup(e, user_id, hit, user_level, user_video_number, user_state) ==
  LET new_user == [present |-> TRUE, level |-> user_level,
                   video_number |-> user_video_number, state |-> user_state]
  IN [e EXCEPT !.row = IF @.present THEN @ ELSE new_user,
               !.inserted = @ + 1,
               !.new_user = new_user]

\* create_user: the lookup once more, and a new row when it finds no user;
\* .new_user is the record returned, .inserted counts the row created
create_user(e, user_id, hit, user_level, user_video_number, user_state) ==
  LET existing_user == get_user(user_id, hit)
      new_user == [present |-> TRUE, level |-> user_level,
                   video_number |-> user_video_number, state |-> user_state]
  IN IF existing_user.present
       THEN [e EXCEPT !.new_user = existing_user]
       ELSE [e EXCEPT !.row = IF @.present THEN @ ELSE new_user,
                      !.inserted = @ + 1,
                      !.new_user = new_user]

\* variant: one conversation context is kept for all users
Finish_sharing_one_context(user_id, op, text, video_record_id, is_review, oracle, user, e) ==
  /\ users_table' = [users_table EXCEPT ![user_id] = e.row]
  /\ get_user_cache' = [get_user_cache EXCEPT ![user_id] = IF user.present THEN e.user ELSE NoUser]
  /\ user_conversations' = [u \in DOMAIN user_conversations |-> e.conv]
  /\ user_review_sessions' = [user_review_sessions EXCEPT ![user_id] = e.review]
  /\ buttons' = [buttons EXCEPT ![user_id] = e.buttons]
  /\ user_records' = [user_records EXCEPT ![user_id] = @ + e.inserted]
  /\ UNCHANGED <<store_caches, suspended>>
  /\ last' = [user_id |-> user_id, op |-> op, text |-> text,
              video_record_id |-> video_record_id, is_review |-> is_review,
              oracle |-> oracle,
              user |-> user,
              row |-> users_table[user_id],
              conv |-> user_conversations[user_id],
              review |-> user_review_sessions[user_id],
              out |-> e.out]

\* variant: an event of a user the lookup does not find ends the review
Finish_ending_review_of_unknown_user(user_id, op, text, video_record_id, is_review, oracle, user, e) ==
  /\ users_table' = [users_table EXCEPT ![user_id] = e.row]
  /\ get_user_cache' = [get_user_cache EXCEPT ![user_id] = IF user.present THEN e.user ELSE NoUser]
  /\ user_conversations' = [user_conversations EXCEPT ![user_id] = e.conv]
  /\ user_review_sessions' = [user_review_sessions EXCEPT ![user_id] =
                                IF user.present THEN e.review ELSE NoSession]
  /\ buttons' = [buttons EXCEPT ![user_id] = e.buttons]
  /\ user_records' = [user_records EXCEPT ![user_id] = @ + e.inserted]
  /\ UNCHANGED <<store_caches, suspended>>
  /\ last' = [user_id |-> user_id, op |-> op, text |-> text,
              video_record_id |-> video_record_id, is_review |-> is_review,
              oracle |-> oracle,
              user |-> user,
              row |-> users_table[user_id],
              conv |-> user_conversations[user_id],
              review |-> user_review_sessions[user_id],
              out |-> e.out]

\* The dict returned by get_user is the object held by the cache (or is put
\* there on a miss), so what the handler leaves in it is what the next hit
\* returns.
Finish(user_id, op, text, video_record_id, is_review, oracle, user, e) ==
  /\ users_table' = [users_table EXCEPT ![user_id] = e.row]
  /\ get_user_cache' = [get_user_cache EXCEPT ![user_id] = IF user.present THEN e.user ELSE NoUser]
  /\ user_conversations' = [user_conversations EXCEPT ![user_id] = e.conv]
  /\ user_review_sessions' = [user_review_sessions EXCEPT ![user_id] = e.review]
  /\ buttons' = [buttons EXCEPT ![user_id] = e.buttons]
  /\ user_records' = [user_records EXCEPT ![user_id] = @ + e.inserted]
  /\ UNCHANGED <<store_caches, suspended>>
  /\ last' = [user_id |-> user_id, op |-> op, text |-> text,
              video_record_id |-> video_record_id, is_review |-> is_review,
              oracle |-> oracle,
              user |-> user,
              row |-> users_table[user_id],
              conv |-> user_conversations[user_id],
              review |-> user_review_sessions[user_id],
              out |-> e.out]

\* variant: registration leaves the maps as they are
Start_without_cleanup(user_id, W) ==
  \E hit \in BOOLEAN :
    LET user == get_user(user_id, hit)
        e == Context(user_id, user)
    IN IF user.present
         THEN Finish(user_id, "start", "", "", FALSE, "", user,
                     Emit(e, "reply", "ALREADY_REGISTERED"))
         ELSE Finish(user_id, "start", "", "", FALSE, "", user,
                     Emit(create_user(e, user_id, hit, USER_LEVELS.ENTRY, 0, PLACEMENT_TEST),
                          "reply", "WELCOME"))

\* @dp.message(Command("start"))
Start(user_id, W) ==
  \E hit \in BOOLEAN :
    LET user == get_user(user_id, hit)
        e == Context(user_id, user)
    IN IF user.present
         THEN Finish(user_id, "start", "", "", FALSE, "", user,
                     Emit(e, "reply", "ALREADY_REGISTERED"))
         ELSE \* cleanup_user_data_from_memory, create_user, welcome messages
              Finish(user_id, "start", "", "", FALSE, "", user,
                     Emit(create_user([e EXCEPT !.conv = NoContext, !.review = NoSession],
                                      user_id, hit, USER_LEVELS.ENTRY, 0, PLACEMENT_TEST),
                          "reply", "WELCOME"))

\* @dp.message(): handle_message
Message(user_id, W) ==
  \E text \in Texts, hit \in BOOLEAN :
    LET user == get_user(user_id, hit)
        e == Context(user_id, user)
        Done(oracle, r) == Finish(user_id, "message", text, "", FALSE, oracle, user, r)
        room == Len(e.conv.conversation_history) + 2 <= MaxHist
    IN IF ~user.present
         THEN Done("", Emit(e, "reply", "START_BOT_FIRST"))
       ELSE IF text = UNDERSTOOD_BUTTON /\ user.state \in {WAITING_FOR_RESPONSE, CHAT_MODE}
         THEN \E ok1 \in W, ok2 \in W : Done("", handle_understood(e, ok1, ok2))
       ELSE IF text = OVERVIEW_BUTTON /\ user.state \in {WAITING_FOR_RESPONSE, CHAT_MODE}
         THEN \E ok \in W : Done("", handle_overview_button(e, ok))
       ELSE IF user.state = PLACEMENT_TEST
         THEN \E answer \in PlacementAnswers, random_number \in 1..3, ok \in W :
                Done(answer, handle_placement_test_state(e, answer, random_number, ok))
       ELSE IF user.state = SHOWING_VIDEO
         THEN Done("", Emit(e, "reply", "VIDEO_PROCESSING"))
       ELSE IF user.state = WAITING_FOR_RESPONSE
         THEN /\ room
              /\ \E answer \in AssessmentAnswers, ok \in W :
                   Done(answer, handle_waiting_for_response_state(e, text, answer, ok))
       ELSE IF user.state = CHAT_MODE
         THEN /\ room
              /\ \E answer \in AssessmentAnswers :
                   Done(answer, handle_chat_mode_state(e, text, answer))
       ELSE IF user.state = COURSE_OVERVIEW
         THEN Done("", handle_course_overview_state(e))
       ELSE Done("", Emit(e, "reply", text))

\* @dp.callback_query(): handle_callback with data "ready_for_video"
ReadyCallback(user_id, W) ==
  \E hit \in BOOLEAN, ok \in W :
    LET user == get_user(user_id, hit)
        e == Context(user_id, user)
        Done(r) == Finish(user_id, "ready_for_video", "", "", FALSE, "", user, r)
    IN IF ~user.present
         THEN Done(Emit(e, "callback_answer", "USER_NOT_FOUND"))
         ELSE Done(handle_ready_callback(e, ok))

\* handle_callback with data "next_video"
NextVideoCallback(user_id, W) ==
  \E hit \in BOOLEAN, ok1 \in W, ok2 \in W :
    LET user == get_user(user_id, hit)
        e == Context(user_id, user)
        Done(r) == Finish(user_id, "next_video", "", "", FALSE, "", user, r)
    IN IF ~user.present
         THEN Done(Emit(e, "callback_answer", "USER_NOT_FOUND"))
         ELSE Done(handle_next_video_callback(e, ok1, ok2))

\* handle_callback with data "select_video:<id>:<is_review>", the data of a
\* button of an overview keyboard sent to this user
SelectVideoCallback(user_id, W) ==
  \E button \in buttons[user_id], hit \in BOOLEAN, ok1 \in W, ok2 \in W :
    LET user == get_user(user_id, hit)
        e == Context(user_id, user)
        Done(r) == Finish(user_id, "select_video", "", button.video_record_id,
                          button.is_review, "", user, r)
    IN IF ~user.present
         THEN Done(Emit(e, "callback_answer", "USER_NOT_FOUND"))
         ELSE Done(handle_video_selection_callback(e, button.video_record_id,
                                                   button.is_review, ok1, ok2))

\* The process is started again (main): the module-level maps and the
\* get_user cache are empty again, the record store and the keyboards already
\* sent to the users are what they were.
Restart ==
  /\ get_user_cache' = [u \in Users |-> NoUser]
  /\ user_conversations' = [u \in Users |-> NoContext]
  /\ user_review_sessions' = [u \in Users |-> NoSession]
  /\ last' = [user_id |-> "", op |-> "restart", text |-> "", video_record_id |-> "",
              is_review |-> FALSE, oracle |-> "", user |-> NoUser, row |-> NoUser,
              conv |-> NoContext, review |-> NoSession, out |-> <<>>]
  /\ suspended' = [u \in Users |-> <<>>]
  /\ UNCHANGED <<users_table, buttons, store_caches, user_records>>

\* The user's row is deleted in the record store (by its administrator).
\* The program is not told: its maps and the get_user cache stay as they
\* are, and an update of the deleted row fails.
DeleteUser(user_id) ==
  /\ users_table[user_id].present
  /\ users_table' = [users_table EXCEPT ![user_id] = NoUser]
  /\ user_records' = [user_records EXCEPT ![user_id] = 0]
  /\ last' = [user_id |-> user_id, op |-> "delete_user", text |-> "",
              video_record_id |-> "", is_review |-> FALSE, oracle |-> "",
              user |-> NoUser, row |-> users_table[user_id],
              conv |-> user_conversations[user_id],
              review |-> user_review_sessions[user_id], out |-> <<>>]
  /\ UNCHANGED <<get_user_cache, user_conversations, user_review_sessions, buttons,
                 store_caches, suspended>>

(***************************************************************************)
(* Specification.  In Spec every record-store write succeeds.              *)
(***************************************************************************)
NoEvent == [user_id |-> "", op |-> "init", text |-> "", video_record_id |-> "",
            is_review |-> FALSE, oracle |-> "", user |-> NoUser, row |-> NoUser, conv |-> NoContext,
            review |-> NoSession, out |-> <<>>]

Init ==
  /\ users_table = [u \in Users |-> NoUser]
  /\ get_user_cache = [u \in Users |-> NoUser]
  /\ user_conversations = [u \in Users |-> NoContext]
  /\ user_review_sessions = [u \in Users |-> NoSession]
  /\ buttons = [u \in Users |-> {}]
  /\ last = NoEvent
  /\ videos_table = Catalog
  /\ get_videos_cache = NoEntry
  /\ video_cache = [key \in OverviewKeys |-> NoEntry]
  /\ suspended = [u \in Users |-> <<>>]
  /\ user_records = [u \in Users |-> 0]

WritesSucceed == {TRUE}

Next ==
  \E user_id \in Users :
    \/ Start(user_id, WritesSucceed)
    \/ Message(user_id, WritesSucceed)
    \/ ReadyCallback(user_id, WritesSucceed)
    \/ NextVideoCallback(user_id, WritesSucceed)
    \/ SelectVideoCallback(user_id, WritesSucceed)

Spec == Init /\ [][Next]_vars

\* the same events, with restarts of the process between them
NextRestart ==
  \/ Next
  \/ Restart

SpecRestart == Init /\ [][NextRestart]_vars

(***************************************************************************)
(* The first lesson.  SpecDelete, SpecOverlap and SpecTwoUsers follow a    *)
(* user through registration, the placement, the first lesson of the       *)
(* Beginner level, its overview and a review.                              *)
(***************************************************************************)
EarlyLevels == {"", USER_LEVELS.ENTRY, USER_LEVELS.BEGINNER}

\* user_id is at or before the first lesson of the Beginner level
FirstLesson(user_id) ==
  /\ users_table[user_id].level \in EarlyLevels
  /\ get_user_cache[user_id].level \in EarlyLevels
  /\ users_table[user_id].video_number <= 1
  /\ get_user_cache[user_id].video_number <= 1
  /\ Len(user_conversations[user_id].conversation_history) <= MaxFirstHist
  /\ Cardinality(buttons[user_id]) <= 2

\* Of two users, u1 is followed and u2 stands by: it registers, is placed,
\* opens the lesson, its overview and a review.
Bystander == "u2"

\* with two users the oracle answers, a dict held by the get_user cache
\* equals its row, and the bystander records no exchange
WithBystander ==
  /\ last.oracle \in {"", "Beginner", "feedback"}
  /\ \A user_id \in DOMAIN users_table :
       get_user_cache[user_id].present => get_user_cache[user_id] = users_table[user_id]
  /\ user_conversations[Bystander].conversation_history = <<>>
  /\ users_table[Bystander].level = USER_LEVELS.ENTRY
       => \/ users_table[Bystander].video_number = 0
          \/ user_review_sessions[Bystander].present

InFirstLesson ==
  /\ \A user_id \in DOMAIN users_table : FirstLesson(user_id)
  /\ Bystander \in DOMAIN users_table => WithBystander

\* the events of Next, taken within the first lesson
StartFirst(user_id) == Start(user_id, WritesSucceed) /\ InFirstLesson'

MessageFirst(user_id) == Message(user_id, WritesSucceed) /\ InFirstLesson'

ReadyCallbackFirst(user_id) == ReadyCallback(user_id, WritesSucceed) /\ InFirstLesson'

NextVideoCallbackFirst(user_id) == NextVideoCallback(user_id, WritesSucceed) /\ InFirstLesson'

SelectVideoCallbackFirst(user_id) == SelectVideoCallback(user_id, WritesSucceed) /\ InFirstLesson'

\* the same events, with deletions of the user's row between them
NextDelete ==
  \E user_id \in Users :
    \/ StartFirst(user_id)
    \/ MessageFirst(user_id)
    \/ ReadyCallbackFirst(user_id)
    \/ NextVideoCallbackFirst(user_id)
    \/ SelectVideoCallbackFirst(user_id)
    \/ DeleteUser(user_id)

SpecDelete == Init /\ [][NextDelete]_vars

(***************************************************************************)
(* Failing writes.  update_user returns False when the record store        *)
(* rejects or does not answer the update; safe_update_user passes the      *)
(* value on and no handler looks at it.  In SpecWriteFailure every write   *)
(* of a handler succeeds or fails.                                         *)
(***************************************************************************)
WritesMayFail == BOOLEAN

MessageMayFail(user_id) == Message(user_id, WritesMayFail) /\ InFirstLesson'

ReadyCallbackMayFail(user_id) == ReadyCallback(user_id, WritesMayFail) /\ InFirstLesson'

NextVideoCallbackMayFail(user_id) == NextVideoCallback(user_id, WritesMayFail) /\ InFirstLesson'

SelectVideoCallbackMayFail(user_id) == SelectVideoCallback(user_id, WritesMayFail) /\ InFirstLesson'

NextWriteFailure ==
  \E user_id \in Users :
    \/ StartFirst(user_id)
    \/ MessageMayFail(user_id)
    \/ ReadyCallbackMayFail(user_id)
    \/ NextVideoCallbackMayFail(user_id)
    \/ SelectVideoCallbackMayFail(user_id)

SpecWriteFailure == Init /\ [][NextWriteFailure]_vars

(***************************************************************************)
(* Overlapping events of one user.  The dispatcher handles every update in *)
(* a task of its own, so a handler that waits (await) leaves the loop to   *)
(* the handlers of later updates.  The review-end branch of handle_message *)
(* waits in safe_update_user (asyncio.sleep, then the write) between its   *)
(* read of user_review_sessions[user_id] and its del; it is taken here in  *)
(* two steps, with the events of Next between them.                        *)
(***************************************************************************)
\* "Verstanden!" in a review, up to the await: the snapshot is read and the
\* user dict (the object the cache holds) is set back to the original position
ReviewEndAwait(user_id) ==
  \E hit \in BOOLEAN :
    LET user == get_user(user_id, hit)
        review_session == user_review_sessions[user_id]
        restored == [user EXCEPT !.level = review_session.original_level,
                                 !.video_number = review_session.original_video_number]
    IN /\ user.present
       /\ user.state \in {WAITING_FOR_RESPONSE, CHAT_MODE}
       /\ review_session.present
       /\ Len(suspended[user_id]) < MaxSuspended
       /\ get_user_cache' = [get_user_cache EXCEPT ![user_id] = restored]
       /\ suspended' = [suspended EXCEPT ![user_id] =
                          Append(@, [user |-> restored, review_session |-> review_session])]
       /\ last' = [user_id |-> user_id, op |-> "review_end_await",
                   text |-> UNDERSTOOD_BUTTON, video_record_id |-> "",
                   is_review |-> FALSE, oracle |-> "", user |-> user,
                   row |-> users_table[user_id],
                   conv |-> user_conversations[user_id],
                   review |-> review_session, out |-> <<>>]
       /\ UNCHANGED <<users_table, user_conversations, user_review_sessions, buttons,
                      store_caches, user_records>>

\* the handler that has waited longest goes on: update_user writes its dict
\* (which other handlers may have changed meanwhile, if the cache still
\* holds the same object), then del user_review_sessions[user_id], which
\* raises KeyError when the entry is gone, then the reply
ReviewEndResume(user_id) ==
  /\ suspended[user_id] # <<>>
  /\ LET frame == Head(suspended[user_id])
         dicts == {frame.user} \cup (IF get_user_cache[user_id].present
                                       THEN {get_user_cache[user_id]} ELSE {})
         found == user_review_sessions[user_id].present
     IN \E written \in dicts :
          /\ users_table' = [users_table EXCEPT ![user_id] =
                               IF @.present THEN written ELSE @]
          /\ user_review_sessions' = [user_review_sessions EXCEPT ![user_id] = NoSession]
          /\ suspended' = [suspended EXCEPT ![user_id] = Tail(@)]
          /\ last' = [user_id |-> user_id, op |-> "review_end",
                      text |-> UNDERSTOOD_BUTTON, video_record_id |-> "",
                      is_review |-> FALSE, oracle |-> "", user |-> frame.user,
                      row |-> users_table[user_id],
                      conv |-> user_conversations[user_id],
                      review |-> user_review_sessions[user_id],
                      read |-> frame.review_session,
                      out |-> << [kind |-> IF users_table[user_id].present
                                            THEN "update_user" ELSE "update_user_failed",
                                  arg |-> written.state],
                                 IF found THEN [kind |-> "reply", arg |-> "REVIEW_ENDED"]
                                 ELSE [kind |-> "error", arg |-> "KeyError"] >>]
  /\ UNCHANGED <<get_user_cache, user_conversations, buttons, store_caches, user_records>>

NextOverlap ==
  \E user_id \in Users :
    \/ StartFirst(user_id)
    \/ MessageFirst(user_id)
    \/ ReadyCallbackFirst(user_id)
    \/ NextVideoCallbackFirst(user_id)
    \/ SelectVideoCallbackFirst(user_id)
    \/ ReviewEndAwait(user_id)
    \/ ReviewEndResume(user_id)

SpecOverlap == Init /\ [][NextOverlap]_vars

(***************************************************************************)
(* The conversation summary on its own: messages are appended to a context *)
(* and the summary is rendered after each; last.out is the summary.        *)
(***************************************************************************)
\* message contents: one line, two lines, the empty message
Contents == { <<"yes">>, <<"first line", "second line">>, EmptyText }

Summarised(op, context) ==
  [NoEvent EXCEPT !.op = op, !.conv = context, !.out = get_conversation_summary(context)]

InitSummary ==
  /\ users_table = [u \in Users |-> NoUser]
  /\ get_user_cache = [u \in Users |-> NoUser]
  /\ user_conversations = [u \in Users |-> NewContext(Catalog[2])]
  /\ user_review_sessions = [u \in Users |-> NoSession]
  /\ buttons = [u \in Users |-> {}]
  /\ last = Summarised("init", NewContext(Catalog[2]))
  /\ videos_table = Catalog
  /\ get_videos_cache = NoEntry
  /\ video_cache = [key \in OverviewKeys |-> NoEntry]
  /\ suspended = [u \in Users |-> <<>>]
  /\ user_records = [u \in Users |-> 0]

\* ConversationManager.add_user_message / add_assistant_message followed by
\* get_conversation_summary
AddMessage(user_id, role) ==
  \E content \in Contents :
    /\ Len(user_conversations[user_id].conversation_history) < MaxSummaryHist
    /\ user_conversations' =
         [user_conversations EXCEPT ![user_id] = add_message(@, role, content)]
    /\ last' = Summarised("add_message", user_conversations'[user_id])
    /\ UNCHANGED <<users_table, get_user_cache, user_review_sessions, buttons, store_caches,
                   suspended, user_records>>

add_user_message(user_id) == AddMessage(user_id, "user")

add_assistant_message(user_id) == AddMessage(user_id, "assistant")

NextSummary ==
  \E user_id \in Users :
    \/ add_user_message(user_id)
    \/ add_assistant_message(user_id)

SpecSummary == InitSummary /\ [][NextSummary]_vars

(***************************************************************************)
(* The overview text on its own: it is generated for a position while the  *)
(* videos table is edited and cache entries expire.  last is the call      *)
(* made last: position, the table at the time of the call, and the text.   *)
(***************************************************************************)
\* the table before its last lesson was entered
EarlierCatalog == SubSeq(Catalog, 1, Len(Catalog) - 1)

Catalogs == {EarlierCatalog, Catalog}

InitOverview ==
  /\ users_table = [u \in Users |-> NoUser]
  /\ get_user_cache = [u \in Users |-> NoUser]
  /\ user_conversations = [u \in Users |-> NoContext]
  /\ user_review_sessions = [u \in Users |-> NoSession]
  /\ buttons = [u \in Users |-> {}]
  /\ last = [op |-> "init", user_level |-> "", current_video_number |-> 0,
             videos |-> <<>>, out |-> <<>>]
  /\ videos_table = EarlierCatalog
  /\ get_videos_cache = NoEntry
  /\ video_cache = [key \in OverviewKeys |-> NoEntry]
  /\ suspended = [u \in Users |-> <<>>]
  /\ user_records = [u \in Users |-> 0]

memory == <<users_table, get_user_cache, user_conversations, user_review_sessions, buttons,
           suspended, user_records>>

\* a call of generate_course_overview_text
GenerateOverview ==
  \E key \in DOMAIN video_cache :
    LET r == generate_course_overview_text(key[1], key[2])
    IN /\ get_videos_cache' = r.get_videos_cache
       /\ video_cache' = r.video_cache
       /\ last' = [op |-> "generate_course_overview_text", user_level |-> key[1],
                   current_video_number |-> key[2], videos |-> videos_table,
                   out |-> r.result]
       /\ UNCHANGED <<videos_table, memory>>

\* the videos table is edited in the record store
EditVideos ==
  /\ \E videos \in Catalogs : videos # videos_table /\ videos_table' = videos
  /\ UNCHANGED <<get_videos_cache, video_cache, last, memory>>

\* SimpleCache.get after the ttl of an entry: the entry is gone
ExpireOverview ==
  /\ \E key \in OverviewKeys :
       /\ video_cache[key].present
       /\ video_cache' = [video_cache EXCEPT ![key] = NoEntry]
  /\ UNCHANGED <<videos_table, get_videos_cache, last, memory>>

ExpireVideos ==
  /\ get_videos_cache.present
  /\ get_videos_cache' = NoEntry
  /\ UNCHANGED <<videos_table, video_cache, last, memory>>

NextOverview ==
  \/ GenerateOverview
  \/ EditVideos
  \/ ExpireOverview
  \/ ExpireVideos

SpecOverview == InitOverview /\ [][NextOverview]_vars

(***************************************************************************)
(* The overview of any catalog.  In SpecProjector the videos table is any  *)
(* sequence of at most MaxVideos rows, in any order, of two course levels  *)
(* and two levels outside the course, and the overview is requested for    *)
(* positions in levels the table has rows of and in one it has none of.    *)
(***************************************************************************)
ProjectorLevels == {"Beginner", "Advanced", "Bonus", "Extra"}

VideoRows == {[id |-> "rec", level |-> level, video_number |-> video_number] :
                level \in ProjectorLevels, video_number \in 1..2}

ProjectorCatalogs == UNION {[1..k -> VideoRows] : k \in 0..MaxVideos}

ProjectorKeys == {<<"Beginner", 1>>, <<"Beginner", 2>>, <<"Intermediate", 1>>, <<"Advanced", 2>>}

InitProjector ==
  /\ users_table = [u \in Users |-> NoUser]
  /\ get_user_cache = [u \in Users |-> NoUser]
  /\ user_conversations = [u \in Users |-> NoContext]
  /\ user_review_sessions = [u \in Users |-> NoSession]
  /\ buttons = [u \in Users |-> {}]
  /\ last = [op |-> "init", user_level |-> "", current_video_number |-> 0,
             videos |-> <<>>, out |-> <<>>]
  /\ videos_table \in ProjectorCatalogs
  /\ get_videos_cache = NoEntry
  /\ video_cache = [key \in ProjectorKeys |-> NoEntry]
  /\ suspended = [u \in Users |-> <<>>]
  /\ user_records = [u \in Users |-> 0]

NextProjector == GenerateOverview

SpecProjector == InitProjector /\ [][NextProjector]_vars

(***************************************************************************)
(* The overview keyboard of any catalog.  In SpecKeyboard the videos table *)
(* is any sequence of at most MaxVideos different rows of the three course *)
(* levels after Entry, and the keyboard is built for every position in     *)
(* those levels.  last is the call made last: position, the table read,    *)
(* and the buttons.                                                        *)
(***************************************************************************)
KeyboardLevels == {"Beginner", "Intermediate", "Advanced"}

KeyboardRows ==
  {[id |-> "recB1", level |-> "Beginner", video_number |-> 1],
   [id |-> "recB2", level |-> "Beginner", video_number |-> 2],
   [id |-> "recI1", level |-> "Intermediate", video_number |-> 1],
   [id |-> "recI2", level |-> "Intermediate", video_number |-> 2],
   [id |-> "recA1", level |-> "Advanced", video_number |-> 1],
   [id |-> "recA2", level |-> "Advanced", video_number |-> 2]}

\* record ids are unique in the table
KeyboardCatalogs ==
  {videos \in UNION {[1..k -> KeyboardRows] : k \in 0..MaxVideos} :
     \A i, j \in DOMAIN videos : i # j => videos[i] # videos[j]}

KeyboardKeys == KeyboardLevels \X (1..2)

InitKeyboard ==
  /\ users_table = [u \in Users |-> NoUser]
  /\ get_user_cache = [u \in Users |-> NoUser]
  /\ user_conversations = [u \in Users |-> NoContext]
  /\ user_review_sessions = [u \in Users |-> NoSession]
  /\ buttons = [u \in Users |-> {}]
  /\ last = [op |-> "init", user_level |-> "", current_video_number |-> 0,
             videos |-> <<>>, out |-> <<>>]
  /\ videos_table \in KeyboardCatalogs
  /\ get_videos_cache = NoEntry
  /\ video_cache = [key \in OverviewKeys |-> NoEntry]
  /\ suspended = [u \in Users |-> <<>>]
  /\ user_records = [u \in Users |-> 0]

\* a call of KeyboardFactory.create_course_overview_keyboard: the table is
\* read through get_videos() and its cache
CreateKeyboard ==
  \E key \in KeyboardKeys :
    LET read == cached_get_videos
        all_videos == read.result
    IN /\ get_videos_cache' = read.cache
       /\ last' = [op |-> "create_course_overview_keyboard", user_level |-> key[1],
                   current_video_number |-> key[2], videos |-> all_videos,
                   out |-> keyboard_loop(all_videos, sorted_levels(all_videos),
                                         key[1], key[2], FALSE)]
       /\ UNCHANGED <<videos_table, video_cache, memory>>

NextKeyboard == CreateKeyboard

SpecKeyboard == InitKeyboard /\ [][NextKeyboard]_vars

(***************************************************************************)
(* Vocabulary of the properties                                            *)
(***************************************************************************)
Position(r) == <<r.level, r.video_number>>

VideoPosition(video_record_id) == Position(find_video_by_id(video_record_id))

\* the event handled last was "Verstanden!" honoured in WaitingForResponse / ChatMode
Understood(ev) ==
  /\ ev.op = "message" /\ ev.text = UNDERSTOOD_BUTTON /\ ev.user.present
  /\ ev.user.state \in {WAITING_FOR_RESPONSE, CHAT_MODE}

\* ... while a review session existed / did not exist
ReviewEnded(ev) == Understood(ev) /\ ev.review.present
Advanced(ev) == Understood(ev) /\ ~ev.review.present

\* the event was the selection of an existing lesson as a review
ReviewSelected(ev) ==
  /\ ev.op = "select_video" /\ ev.is_review /\ ev.user.present
  /\ find_video_by_id(ev.video_record_id) # NoVideo

\* the user had been placed: the event found the row at a course level
InCourse(ev) == ev.row.level \in {"Beginner", "Intermediate", "Advanced"}

(***************************************************************************)
(* C1  Review round trip                                                   *)
(***************************************************************************)
\* the event was a review selection made in WaitingForResponse / ChatMode at
\* persisted position P = Position(ev.row), with no review session, of a
\* lesson other than P
RoundTripSelection(ev) ==
  /\ ReviewSelected(ev)
  /\ ~ev.review.present
  /\ ev.row.state \in {WAITING_FOR_RESPONSE, CHAT_MODE}
  /\ VideoPosition(ev.video_record_id) # Position(ev.row)

\* C1: a review selection made in WaitingForResponse or ChatMode at persisted
\* position P with no review session, of a lesson other than P, creates a
\* session whose original position is P; "Verstanden!" sent next restores the
\* persisted position to exactly P and deletes the session; a further
\* "Verstanden!" (no session left) moves the persisted position to
\* advance(P).
C1_ReviewRoundTrip ==
  [][\A u \in Users :
       /\ (last'.user_id = u /\ RoundTripSelection(last'))
            => /\ user_review_sessions'[u].present
               /\ user_review_sessions'[u].original_level = users_table[u].level
               /\ user_review_sessions'[u].original_video_number = users_table[u].video_number
       /\ (last.user_id = u /\ RoundTripSelection(last)
             /\ last'.user_id = u /\ last'.op = "message" /\ last'.text = UNDERSTOOD_BUTTON)
            => /\ ReviewEnded(last')
               /\ Position(users_table'[u]) = Position(last.row)
               /\ ~user_review_sessions'[u].present
       /\ (last.user_id = u /\ ReviewEnded(last)
             /\ last'.user_id = u /\ last'.op = "message" /\ last'.text = UNDERSTOOD_BUTTON)
            => /\ Advanced(last')
               /\ users_table'[u].level =
                    advance(users_table[u].level, users_table[u].video_number,
                            MAX_VIDEOS_PER_LEVEL).level
               /\ users_table'[u].video_number =
                    advance(users_table[u].level, users_table[u].video_number,
                            MAX_VIDEOS_PER_LEVEL).video_number
  ]_vars

\* a review of another lesson has just been ended: the row is back at the
\* session's original position and the session is gone
C1_Witness ==
  /\ ReviewEnded(last)
  /\ VideoPosition(last.review.review_video_id) #
       <<last.review.original_level, last.review.original_video_number>>
  /\ Position(last.row) = VideoPosition(last.review.review_video_id)
  /\ Position(users_table[last.user_id]) =
       <<last.review.original_level, last.review.original_video_number>>
  /\ ~user_review_sessions[last.user_id].present

(***************************************************************************)
(* C2  Guaranteed return from review                                       *)
(***************************************************************************)
\* C2: a review selection made while a review session exists leaves the
\* session's original position what it was, the position held before the
\* first selection.
C2_OriginalKeptAcrossSelections ==
  [][\A u \in Users :
       (user_review_sessions[u].present /\ last'.user_id = u /\ ReviewSelected(last'))
         => /\ user_review_sessions'[u].present
            /\ user_review_sessions'[u].original_level =
                 user_review_sessions[u].original_level
            /\ user_review_sessions'[u].original_video_number =
                 user_review_sessions[u].original_video_number
  ]_vars

(***************************************************************************)
(* C3  A review selection writes no position to the record store           *)
(***************************************************************************)
\* C3: handling a review selection, its lesson presentation included, leaves
\* the persisted level and video_number of the user unchanged.
C3_ReviewSelectionKeepsPersistedPosition ==
  [][\A u \in Users :
       (last'.user_id = u /\ ReviewSelected(last'))
         => Position(users_table'[u]) = Position(users_table[u])
  ]_vars

(***************************************************************************)
(* C4  Selecting the current lesson is not a review                        *)
(***************************************************************************)
\* C4: selecting, with no review session open, the overview button of the
\* lesson at the (placed) user's own position persists that position and
\* creates no review session.
C4_CurrentLessonIsNoReview ==
  [][\A u \in Users :
       (/\ last'.user_id = u /\ last'.op = "select_video" /\ last'.user.present
        /\ InCourse(last')
        /\ ~user_review_sessions[u].present
        /\ VideoPosition(last'.video_record_id) = Position(users_table[u]))
         => /\ ~user_review_sessions'[u].present
            /\ Position(users_table'[u]) = Position(users_table[u])
  ]_vars

(***************************************************************************)
(* C5  "Verstanden!" with a review session                                 *)
(***************************************************************************)
EndsReview(ev, state) ==
  LET u == ev.user_id
  IN /\ users_table[u].state = state
     /\ users_table[u].level = ev.review.original_level
     /\ users_table[u].video_number = ev.review.original_video_number
     /\ ~user_review_sessions[u].present
     \* no advance: nothing but the restoring write and the reply happened
     /\ user_conversations[u] = ev.conv
     /\ ev.out = << [kind |-> "update_user", arg |-> ev.user.state],
                    [kind |-> "reply", arg |-> "REVIEW_ENDED"] >>

\* C5 as stated: after "Verstanden!" of a placed user with a review session
\* the state is ChatMode, the persisted position is the session's original position, the
\* session is gone and no advance happened.
C5_ReviewEndsInChatMode ==
  (ReviewEnded(last) /\ InCourse(last)) => EndsReview(last, CHAT_MODE)

\* C5 amended: ... the state is the one the user was in (WaitingForResponse
\* or ChatMode), the persisted position is the session's original position,
\* the session is gone and no advance happened.
C5_ReviewEndKeepsState ==
  ReviewEnded(last) => EndsReview(last, last.user.state)

\* a review was ended from WaitingForResponse and from there the user is
\* still in WaitingForResponse at the original position
C5_Witness ==
  /\ ReviewEnded(last)
  /\ last.user.state = WAITING_FOR_RESPONSE
  /\ users_table[last.user_id].state = WAITING_FOR_RESPONSE
  /\ Position(users_table[last.user_id]) # Position(last.row)

(***************************************************************************)
(* C6  "Verstanden!" without a review session                              *)
(***************************************************************************)
Sent(ev, kind, arg) == \E i \in DOMAIN ev.out : ev.out[i] = [kind |-> kind, arg |-> arg]

NextPosition(ev) == advance(ev.row.level, ev.row.video_number, MAX_VIDEOS_PER_LEVEL)

NextVideo(ev) == get_video_info(NextPosition(ev).level, NextPosition(ev).video_number)

\* the advanced position is persisted and ShowingVideo was written
AdvancePersisted(ev) ==
  /\ users_table[ev.user_id].level = NextPosition(ev).level
  /\ users_table[ev.user_id].video_number = NextPosition(ev).video_number
  /\ Sent(ev, "update_user", SHOWING_VIDEO)

\* the context is a fresh one for the new video and the lesson was presented
ContextReplacedAndPresented(ev) ==
  /\ user_conversations[ev.user_id] = NewContext(NextVideo(ev))
  /\ NextVideo(ev) # NoVideo
  /\ Sent(ev, "lesson", NextVideo(ev).id)
  /\ Sent(ev, "question", NextVideo(ev).id)

next_level_table == [Beginner |-> "Intermediate", Intermediate |-> "Advanced",
                     Advanced |-> "Advanced"]

ExpectedAdvance(level, n, max) ==
  IF n + 1 <= max
    THEN [level |-> level, video_number |-> n + 1]
    ELSE [level |-> next_level_table[level], video_number |-> 1]

\* C7: advance(level, n, max) is (level, n+1) when n+1 <= max and otherwise
\* (next_level(level), 1), next_level being Beginner -> Intermediate ->
\* Advanced -> Advanced; with max = 2, advance(Beginner,1) = (Beginner,2),
\* advance(Beginner,2) = (Intermediate,1), advance(Advanced,2) = (Advanced,1);
\* and this is the position an advancing "Verstanden!" persists.
C7_AdvanceFunction ==
  /\ \A level \in DOMAIN next_level_table, n \in 0..3, max \in 1..3 :
       advance(level, n, max) = ExpectedAdvance(level, n, max)
  /\ advance("Beginner", 1, 2) = [level |-> "Beginner", video_number |-> 2]
  /\ advance("Beginner", 2, 2) = [level |-> "Intermediate", video_number |-> 1]
  /\ advance("Advanced", 2, 2) = [level |-> "Advanced", video_number |-> 1]
  /\ (Advanced(last) /\ last.row.level \in DOMAIN next_level_table)
       => Position(users_table[last.user_id]) =
            Position(ExpectedAdvance(last.row.level, last.row.video_number,
                                     MAX_VIDEOS_PER_LEVEL))

\* an advance over the level boundary has been persisted
C7_Witness ==
  /\ Advanced(last)
  /\ Position(last.row) = <<"Beginner", 2>>
  /\ Position(users_table[last.user_id]) = <<"Intermediate", 1>>

(***************************************************************************)
(* C8  The top of the course                                               *)
(***************************************************************************)
AtLastAdvancedVideo(u) ==
  /\ users_table[u].present
  /\ Position(users_table[u]) = <<USER_LEVELS.ADVANCED, MAX_VIDEOS_PER_LEVEL>>
  /\ ~user_review_sessions[u].present

\* C8 as stated: "Verstanden!" never moves a user who is on the last Advanced
\* video past or away from that video.
C8_StaysOnLastAdvancedVideo ==
  [][\A u \in Users :
       (AtLastAdvancedVideo(u) /\ last'.user_id = u /\ Understood(last'))
         => Position(users_table'[u]) = <<USER_LEVELS.ADVANCED, MAX_VIDEOS_PER_LEVEL>>
  ]_vars

\* C8 amended: a user at level Advanced is never moved to another level by
\* an advancing "Verstanden!"; from the last Advanced video the advance goes
\* back to video 1 of Advanced.
C8_StaysInAdvancedLevel ==
  [][\A u \in Users :
       /\ (users_table[u].level = USER_LEVELS.ADVANCED
             /\ last'.user_id = u /\ Advanced(last'))
            => users_table'[u].level = USER_LEVELS.ADVANCED
       /\ (AtLastAdvancedVideo(u) /\ last'.user_id = u /\ Understood(last'))
            => Position(users_table'[u]) = <<USER_LEVELS.ADVANCED, 1>>
  ]_vars

\* the advance from the last Advanced video has happened
C8_Witness ==
  /\ Advanced(last)
  /\ Position(last.row) = <<USER_LEVELS.ADVANCED, MAX_VIDEOS_PER_LEVEL>>
  /\ Position(users_table[last.user_id]) = <<USER_LEVELS.ADVANCED, 1>>

(***************************************************************************)
(* C9  Placement                                                           *)
(***************************************************************************)
PlacementAnswered(ev) ==
  /\ ev.op = "message" /\ ev.text = FreeText
  /\ ev.user.present /\ ev.user.state = PLACEMENT_TEST

\* C9: free text in PlacementTest ends with a level among Beginner,
\* Intermediate, Advanced, video_number 1 and state ShowingVideo, persisted
\* by the handler's last step, whatever the oracle did.
C9_PlacementAlwaysAssignsLevel ==
  PlacementAnswered(last) =>
    /\ users_table[last.user_id].level \in {"Beginner", "Intermediate", "Advanced"}
    /\ users_table[last.user_id].video_number = 1
    /\ users_table[last.user_id].state = SHOWING_VIDEO
    /\ get_user_cache[last.user_id] = users_table[last.user_id]
    /\ last.out = << [kind |-> "reply", arg |-> "READY"],
                     [kind |-> "update_user", arg |-> SHOWING_VIDEO] >>

\* a placement answer was handled while the oracle failed
C9_Witness ==
  /\ PlacementAnswered(last)
  /\ last.oracle \in {"Expert", "error"}
  /\ users_table[last.user_id].state = SHOWING_VIDEO
  /\ users_table[last.user_id].level = "Advanced"

(***************************************************************************)
(* C10  First answer to a lesson                                           *)
(***************************************************************************)
AnsweredInWaiting(ev) ==
  /\ ev.op = "message" /\ ev.text = FreeText
  /\ ev.user.present /\ ev.user.state = WAITING_FOR_RESPONSE

LessonVideo(ev) == get_video_info(ev.user.level, ev.user.video_number)

\* the context is bound to the lesson and holds the answer and the feedback only
TwoMessageContext(ev) ==
  LET c == user_conversations[ev.user_id]
  IN /\ c.present
     /\ LessonVideo(ev) # NoVideo
     /\ c.video_record_id = LessonVideo(ev).id
     /\ c.conversation_history =
          << [role |-> "user", content |-> ev.text],
             [role |-> "assistant", content |-> assess_video_response(ev.oracle)] >>

\* C10 as stated: a free-text answer of a placed user in WaitingForResponse
\* leaves the user
\* in ChatMode with a context bound to the lesson's video that holds exactly
\* the answer and the feedback.
C10_FirstAnswerGivesTwoMessages ==
  (AnsweredInWaiting(last) /\ InCourse(last)) =>
    /\ users_table[last.user_id].state = CHAT_MODE
    /\ TwoMessageContext(last)

\* C10 amended: a free-text answer in WaitingForResponse leaves the user in
\* ChatMode; when the lesson's video exists and the user had no context, or
\* an empty one bound to that video, the context afterwards is bound to that
\* video and holds exactly the answer and the feedback.
C10_FirstAnswerToFreshContext ==
  AnsweredInWaiting(last) =>
    /\ users_table[last.user_id].state = CHAT_MODE
    /\ (/\ LessonVideo(last) # NoVideo
        /\ (~last.conv.present \/ last.conv = NewContext(LessonVideo(last))))
         => TwoMessageContext(last)

\* the first answer of a user who had no context yet
C10_Witness ==
  /\ AnsweredInWaiting(last)
  /\ ~last.conv.present
  /\ TwoMessageContext(last)
  /\ users_table[last.user_id].state = CHAT_MODE

(***************************************************************************)
(* C11  Failure of the assessment oracle                                   *)
(***************************************************************************)
\* a free-text answer to an existing lesson, in WaitingForResponse or
\* ChatMode, for which the assessment oracle failed
OracleFailed(ev) ==
  /\ ev.op = "message" /\ ev.text = FreeText /\ ev.user.present
  /\ ev.user.state \in {WAITING_FOR_RESPONSE, CHAT_MODE}
  /\ LessonVideo(ev) # NoVideo
  /\ ev.oracle = "error"

LastMessage(context) == context.conversation_history[Len(context.conversation_history)]

\* C11: when the assessment oracle fails on a lesson answer of a placed user
\* (WaitingForResponse or ChatMode) the fallback reply is sent and is the assistant message
\* recorded last in the user's context, the state afterwards is ChatMode, and
\* the handler ran to its end (in WaitingForResponse: to its write-back).
C11_OracleFailureKeepsTransition ==
  (OracleFailed(last) /\ InCourse(last)) =>
    /\ Sent(last, "feedback", FALLBACK_RESPONSE)
    /\ user_conversations[last.user_id].present
    /\ user_conversations[last.user_id].conversation_history # <<>>
    /\ LastMessage(user_conversations[last.user_id]) =
         [role |-> "assistant", content |-> FALLBACK_RESPONSE]
    /\ users_table[last.user_id].state = CHAT_MODE
    /\ (last.user.state = WAITING_FOR_RESPONSE
          => last.out[Len(last.out)] = [kind |-> "update_user", arg |-> CHAT_MODE])

(***************************************************************************)
(* C12  A video record that cannot be found                                *)
(***************************************************************************)
\* the event needed a video record that does not exist: a free-text answer
\* in WaitingForResponse at a position without a video, or an advancing
\* "Verstanden!" whose next position has no video
VideoMissing(ev) ==
  \/ AnsweredInWaiting(ev) /\ LessonVideo(ev) = NoVideo
  \/ Advanced(ev) /\ NextVideo(ev) = NoVideo

\* C12: when the video record a handler needs cannot be found, the handler
\* ends with the not-found message and the persisted level, video_number and
\* state are what they were before the event.
C12_MissingVideoLeavesRowUntouched ==
  (VideoMissing(last) /\ InCourse(last)) =>
    /\ last.out[Len(last.out)] = [kind |-> "reply", arg |-> "VIDEO_NOT_FOUND"]
    /\ users_table[last.user_id] = last.row

(***************************************************************************)
(* C13  Order of reply and write-back                                      *)
(***************************************************************************)
Out(kind, arg) == [kind |-> kind, arg |-> arg]

IsWrite(o) == o.kind = "update_user"

\* the overview phrase honoured in WaitingForResponse / ChatMode
OverviewHonoured(ev) ==
  /\ ev.op = "message" /\ ev.text = OVERVIEW_BUTTON /\ ev.user.present
  /\ ev.user.state \in {WAITING_FOR_RESPONSE, CHAT_MODE}

\* the four transitions: placement result, overview, review end, advance
NamedTransition(ev) ==
  PlacementAnswered(ev) \/ OverviewHonoured(ev) \/ ReviewEnded(ev) \/ Advanced(ev)

AdvanceOut(ev) ==
  <<Out("reply", "NEXT_VIDEO_START")>>
  \o (IF ev.user.video_number + 1 > MAX_VIDEOS_PER_LEVEL
        THEN <<Out("congratulations", NextPosition(ev).level)>> ELSE <<>>)
  \o <<Out("update_user", SHOWING_VIDEO)>>
  \o (IF NextVideo(ev) # NoVideo
        THEN <<Out("lesson", NextVideo(ev).id), Out("question", NextVideo(ev).id),
               Out("update_user", WAITING_FOR_RESPONSE)>>
        ELSE <<Out("reply", "VIDEO_NOT_FOUND")>>)

Min(a, b) == IF a < b THEN a ELSE b

\* the i-th of the k newest messages of the history, oldest of them first
Newest(history, k, i) == history[Len(history) - k + i]

RECURSIVE LinesBefore(_, _, _)
\* lines taken by the entries before the i-th
LinesBefore(history, k, i) ==
  IF i = 1 THEN 0
  ELSE LinesBefore(history, k, i - 1) + Len(Newest(history, k, i - 1).content)

RoleName(msg) == IF msg.role = "user" THEN "User" ELSE "Assistant"

\* the text "<Role>: <content>"
Rendered(msg) == <<RoleName(msg) \o ": " \o Head(msg.content)>> \o Tail(msg.content)

\* C14 as stated: the summary has exactly min(5, length) lines, the i-th
\* being "<Role>: <content>" of the i-th of the newest min(5, length)
\* messages, oldest first; it is the empty string for an empty history and
\* one line after one append to an empty history.
C14_SummaryOneLinePerMessage ==
  LET history == user_conversations["u1"].conversation_history
      k == Min(5, Len(history))
      summary == last.out
  IN IF history = <<>> THEN summary = EmptyText
     ELSE /\ Len(summary) = k
          /\ \A i \in 1..k :
               <<summary[i]>> = Rendered(Newest(history, k, i))

\* C14 amended: the summary renders exactly the newest min(5, length)
\* messages, oldest first, each as "<Role>: <content>" and each starting on
\* a new line; a content of n lines takes n lines, so the summary has
\* min(5, length) lines when no rendered content holds a line break; it is
\* the empty string for an empty history.
C14_SummaryOneEntryPerMessage ==
  LET history == user_conversations["u1"].conversation_history
      k == Min(5, Len(history))
      summary == last.out
  IN IF history = <<>> THEN summary = EmptyText
     ELSE /\ Len(summary) = LinesBefore(history, k, k + 1)
          /\ \A i \in 1..k :
               LET msg == Newest(history, k, i)
                   at == LinesBefore(history, k, i)
               IN /\ summary[at + 1] = RoleName(msg) \o ": " \o msg.content[1]
                  /\ \A j \in 2..Len(msg.content) : summary[at + j] = msg.content[j]
          /\ (\A i \in 1..k : Len(Newest(history, k, i).content) = 1)
               => Len(summary) = k

\* a history longer than five messages whose newest five are rendered, one
\* of them of two lines
C14_Witness ==
  LET history == user_conversations["u1"].conversation_history
  IN /\ Len(history) = 6
     /\ history[1].content = <<"yes">>
     /\ history[2].content = <<"first line", "second line">>
     /\ history[6].role = "assistant"
     /\ Len(last.out) = 6
     /\ last.out[1] = RoleName(history[2]) \o ": first line"
     /\ last.out[2] = "second line"

(***************************************************************************)
(* C18  Messages that change nothing                                       *)
(***************************************************************************)
\* a text message in ShowingVideo, or a free text in CourseOverview
IgnoredMessage(ev) ==
  /\ ev.op = "message" /\ ev.user.present
  /\ \/ ev.user.state = SHOWING_VIDEO
     \/ ev.user.state = COURSE_OVERVIEW /\ ev.text = FreeText

FixedReply(ev) ==
  IF ev.user.state = SHOWING_VIDEO THEN "VIDEO_PROCESSING" ELSE "COURSE_QUESTION"

\* C18: a text message received in ShowingVideo, or a free text received in
\* CourseOverview, is answered with the fixed reply of that state and nothing
\* else happens: the persisted state, level and video_number, the context
\* and the review session are what they were.
C18_IgnoredMessageChangesNothing ==
  IgnoredMessage(last) =>
    /\ last.out = <<Out("reply", FixedReply(last))>>
    /\ users_table[last.user_id] = last.row
    /\ user_conversations[last.user_id] = last.conv
    /\ user_review_sessions[last.user_id] = last.review

\* a free text in CourseOverview of a user who has a context and a review
\* session, both still there afterwards
C18_Witness ==
  /\ IgnoredMessage(last)
  /\ last.user.state = COURSE_OVERVIEW
  /\ last.conv.present /\ last.review.present
  /\ user_conversations[last.user_id].present
  /\ user_review_sessions[last.user_id].present
  /\ users_table[last.user_id].state = COURSE_OVERVIEW

(***************************************************************************)
(* C17  ShowingVideo                                                       *)
(***************************************************************************)
\* a message handled by handle_placement_test_state
Placed(ev) ==
  ev.op = "message" /\ ev.user.present /\ ev.user.state = PLACEMENT_TEST

\* the handler of the event set the user's state to ShowingVideo
EntersShowingVideo(ev) ==
  \/ Placed(ev)
  \/ Advanced(ev)
  \/ ev.op = "next_video" /\ ev.user.present
  \/ ev.op = "select_video" /\ ev.user.present
       /\ find_video_by_id(ev.video_record_id) # NoVideo

\* the video of the position the user is at after the event
TargetVideo(ev) ==
  get_video_info(users_table[ev.user_id].level, users_table[ev.user_id].video_number)

Presented(ev) ==
  /\ Sent(ev, "lesson", TargetVideo(ev).id)
  /\ Sent(ev, "question", TargetVideo(ev).id)
  /\ users_table[ev.user_id].state = WAITING_FOR_RESPONSE

\* C17 as stated: whenever a transition sets the state to ShowingVideo and
\* the target video exists, the lesson is presented and the state is
\* WaitingForResponse when the handler of that event ends, with no further
\* event of the user.
C17_ShowingVideoNeverWaits ==
  (EntersShowingVideo(last) /\ TargetVideo(last) # NoVideo) => Presented(last)

\* C17 amended: an advance ("Verstanden!" or the next-video button) and a
\* lesson selection present the lesson and end in WaitingForResponse within
\* their own handler when the target video exists; the placement transition
\* persists ShowingVideo with the "ready" reply and presents nothing, and
\* the ready_for_video callback is the event that presents the lesson and
\* sets WaitingForResponse.
C17_ShowingVideoWaitsOnlyAfterPlacement ==
  /\ (EntersShowingVideo(last) /\ ~Placed(last) /\ TargetVideo(last) # NoVideo)
       => Presented(last)
  /\ Placed(last)
       => /\ users_table[last.user_id].state = SHOWING_VIDEO
          /\ last.out = <<Out("reply", "READY"), Out("update_user", SHOWING_VIDEO)>>
  /\ (last.op = "ready_for_video" /\ last.user.present /\ TargetVideo(last) # NoVideo)
       => Presented(last)

\* the user placed before has pressed the ready button: the lesson of the
\* first video was presented by that event
C17_Witness ==
  /\ last.op = "ready_for_video" /\ last.user.present
  /\ last.row.state = SHOWING_VIDEO
  /\ InCourse(last) /\ last.row.video_number = 1
  /\ ~last.conv.present
  /\ Presented(last)

(***************************************************************************)
(* C19  Free text in ChatMode                                              *)
(***************************************************************************)
ChatFreeText(ev) ==
  /\ ev.op = "message" /\ ev.text = FreeText
  /\ ev.user.present /\ ev.user.state = CHAT_MODE

\* the context ends with the user's message followed by the reply to it
EndsWithExchange(context, ev) ==
  LET n == Len(context.conversation_history)
  IN /\ n >= 2
     /\ context.conversation_history[n - 1] = [role |-> "user", content |-> ev.text]
     /\ context.conversation_history[n] =
          [role |-> "assistant", content |-> assess_video_response(ev.oracle)]

\* C19: a free text of a placed user in ChatMode, the video of the active
\* position existing, leaves the state ChatMode and the persisted position
\* unchanged, and afterwards a context bound to the active video exists
\* whose last two messages are the user's message and the assistant's
\* reply, also when the user had no context before the message.
C19_ChatModeRecordsExchange ==
  (ChatFreeText(last) /\ InCourse(last) /\ LessonVideo(last) # NoVideo) =>
    /\ users_table[last.user_id].state = CHAT_MODE
    /\ Position(users_table[last.user_id]) = Position(last.row)
    /\ user_conversations[last.user_id].present
    /\ user_conversations[last.user_id].video_record_id = LessonVideo(last).id
    /\ EndsWithExchange(user_conversations[last.user_id], last)

(***************************************************************************)
(* C20  The overview signal                                                *)
(***************************************************************************)
\* the overview phrase sent in a state other than WaitingForResponse / ChatMode
OverviewElsewhere(ev) ==
  /\ ev.op = "message" /\ ev.text = OVERVIEW_BUTTON /\ ev.user.present
  /\ ev.user.state \notin {WAITING_FOR_RESPONSE, CHAT_MODE}

NoOverviewSent(ev) == \A i \in DOMAIN ev.out : ev.out[i].kind # "overview"

\* C20: the overview phrase is honoured in WaitingForResponse and ChatMode
\* only; there it sets CourseOverview, sends the overview, and leaves level,
\* video_number, the context and the review session as they were.  In
\* PlacementTest it is a placement answer, in ShowingVideo it gets the
\* "still processing" reply and in CourseOverview the generic course reply.
C20_OverviewOnlyInLessonStates ==
  /\ OverviewHonoured(last) =>
       /\ users_table[last.user_id].state = COURSE_OVERVIEW
       /\ Position(users_table[last.user_id]) = Position(last.row)
       /\ Position(get_user_cache[last.user_id]) = Position(last.user)
       /\ user_conversations[last.user_id] = last.conv
       /\ user_review_sessions[last.user_id] = last.review
       /\ Sent(last, "overview", last.row.level)
  /\ OverviewElsewhere(last) =>
       /\ NoOverviewSent(last)
       /\ last.user.state = PLACEMENT_TEST =>
            /\ users_table[last.user_id].state = SHOWING_VIDEO
            /\ last.out = <<Out("reply", "READY"), Out("update_user", SHOWING_VIDEO)>>
       /\ last.user.state = SHOWING_VIDEO =>
            /\ users_table[last.user_id] = last.row
            /\ last.out = <<Out("reply", "VIDEO_PROCESSING")>>
       /\ last.user.state = COURSE_OVERVIEW =>
            /\ users_table[last.user_id] = last.row
            /\ last.out = <<Out("reply", "COURSE_QUESTION")>>

\* the overview was opened from ChatMode during a review, with an exchange
\* recorded in the context: both are kept
C20_Witness ==
  /\ OverviewHonoured(last)
  /\ last.user.state = CHAT_MODE
  /\ last.review.present
  /\ Len(last.conv.conversation_history) = 2
  /\ users_table[last.user_id].state = COURSE_OVERVIEW
  /\ user_review_sessions[last.user_id].present
  /\ Len(user_conversations[last.user_id].conversation_history) = 2

(***************************************************************************)
(* C15  The overview projection is deterministic                           *)
(***************************************************************************)
\* C15: two calls of the overview projection with the same catalog (the
\* rows of the videos table at the time of the call) and the same
\* (level, video_number) return the same text: the same levels and videos
\* in the same order with the same status labels, whether the first result
\* was cached or not.
C15_SameCatalogSameOverview ==
  [][(/\ last.op = "generate_course_overview_text"
      /\ last'.op = "generate_course_overview_text"
      /\ last'.user_level = last.user_level
      /\ last'.current_video_number = last.current_video_number
      /\ last'.videos = last.videos)
       => last'.out = last.out
  ]_vars

(***************************************************************************)
(* Two users, within the first lesson, with deletions of their rows.       *)
(***************************************************************************)
TwoUsers == {"u1", "u2"}

InitTwoUsers ==
  /\ users_table = [u \in TwoUsers |-> NoUser]
  /\ get_user_cache = [u \in TwoUsers |-> NoUser]
  /\ user_conversations = [u \in TwoUsers |-> NoContext]
  /\ user_review_sessions = [u \in TwoUsers |-> NoSession]
  /\ buttons = [u \in TwoUsers |-> {}]
  /\ last = NoEvent
  /\ videos_table = Catalog
  /\ get_videos_cache = NoEntry
  /\ video_cache = [key \in OverviewKeys |-> NoEntry]
  /\ suspended = [u \in TwoUsers |-> <<>>]
  /\ user_records = [u \in TwoUsers |-> 0]

NextTwoUsers ==
  \E user_id \in TwoUsers :
    \/ StartFirst(user_id)
    \/ MessageFirst(user_id)
    \/ ReadyCallbackFirst(user_id)
    \/ NextVideoCallbackFirst(user_id)
    \/ SelectVideoCallbackFirst(user_id)
    \/ DeleteUser(user_id)

SpecTwoUsers == InitTwoUsers /\ [][NextTwoUsers]_vars

(***************************************************************************)
(* C21: an event of a user the lookup finds no record for                  *)
(***************************************************************************)
\* a message or a button signal whose user lookup found no record
Unregistered ==
  /\ last.op \in {"message", "ready_for_video", "next_video", "select_video"}
  /\ ~last.user.present

\* the handler left the user's row, context and review session as they were
NothingChanged ==
  /\ users_table[last.user_id] = last.row
  /\ user_conversations[last.user_id] = last.conv
  /\ user_review_sessions[last.user_id] = last.review

\* C21 (as stated): a message or button signal of a user without a record
\* produces only the instruction to register (START_BOT_FIRST); no row, no
\* context and no review session is created, changed or removed.
C21_UnregisteredIsToldToRegister ==
  Unregistered =>
    /\ Len(last.out) = 1 /\ last.out[1].arg = "START_BOT_FIRST"
    /\ NothingChanged

\* C21 (amended): a message of a user without a record is answered by the
\* instruction to register only, a button signal by the "user not found"
\* notice only; no row, context or review session is created, changed or
\* removed.
C21_UnregisteredChangesNothing ==
  Unregistered =>
    /\ last.out = << IF last.op = "message"
                       THEN Out("reply", "START_BOT_FIRST")
                       ELSE Out("callback_answer", "USER_NOT_FOUND") >>
    /\ NothingChanged

\* a button signal of a user whose row is gone while a context and a review
\* session of that user are still held
C21_Witness ==
  /\ Unregistered /\ last.op = "select_video"
  /\ last.conv.present /\ last.review.present
  /\ user_conversations[last.user_id].present

(***************************************************************************)
(* C22: the congratulation of a level-up                                   *)
(***************************************************************************)
\* the event was an advance: "Verstanden!" outside a review, or the
\* next_video button
AdvanceEvent(ev) ==
  \/ Advanced(ev)
  \/ ev.op = "next_video" /\ ev.user.present

\* the level the advance of ev moves the user to
AdvancedLevel(ev) == advance(ev.user.level, ev.user.video_number, MAX_VIDEOS_PER_LEVEL).level

LevelUp(ev) == AdvanceEvent(ev) /\ AdvancedLevel(ev) # ev.user.level

IsLessonContent(o) == o.kind \in {"lesson", "question"}

\* C22: whenever an advance changes the user's level, a congratulation
\* naming the new level is sent, and it is sent before any content of the
\* next lesson.
C22_CongratulationBeforeLesson ==
  LevelUp(last) =>
    \E i \in DOMAIN last.out :
      /\ last.out[i] = Out("congratulations", AdvancedLevel(last))
      /\ \A j \in DOMAIN last.out : IsLessonContent(last.out[j]) => i < j

\* a level-up by the next_video button whose next lesson was presented, the
\* new level being the one persisted
C22_Witness ==
  /\ LevelUp(last) /\ last.op = "next_video" /\ InCourse(last)
  /\ \E j \in DOMAIN last.out : last.out[j].kind = "lesson"
  /\ users_table[last.user_id].level = AdvancedLevel(last)

(***************************************************************************)
(* C23: get_or_create_context and the video of the context                 *)
(***************************************************************************)
\* the two messages an answer adds to a history
Exchange(ev) ==
  << [role |-> "user", content |-> ev.text],
     [role |-> "assistant", content |-> assess_video_response(ev.oracle)] >>

\* C23: get_or_create_context(user_id, video), as called for a free-text
\* answer in WaitingForResponse of a placed user, returns the user's
\* existing context only when that context is bound to the argument video;
\* a context bound to another video is discarded for a fresh, empty one bound
\* to the argument video.  The exchange is therefore recorded in a context
\* of the lesson's video, after the old history only if that was the video's.
C23_ContextOfTheSameVideoOnly ==
  (AnsweredInWaiting(last) /\ InCourse(last) /\ LessonVideo(last) # NoVideo) =>
    LET c == user_conversations[last.user_id]
        kept == last.conv.present /\ last.conv.video_record_id = LessonVideo(last).id
    IN /\ c.present
       /\ c.video_record_id = LessonVideo(last).id
       /\ c.conversation_history =
            (IF kept THEN last.conv.conversation_history ELSE <<>>) \o Exchange(last)

(***************************************************************************)
(* C24: the cleanup at registration                                        *)
(***************************************************************************)
\* /start of a user the lookup found no record for: cleanup, then create_user
Registration(ev) == ev.op = "start" /\ ~ev.user.present

\* the maps hold for every other user what they held before the step
OthersKeepMaps ==
  \A user_id \in DOMAIN user_conversations \ {last'.user_id} :
    /\ user_conversations'[user_id] = user_conversations[user_id]
    /\ user_review_sessions'[user_id] = user_review_sessions[user_id]

\* C24: the cleanup run by /start before the user record is created removes
\* the context and the review session of that user and nothing of any other
\* user, so the newly registered user has a row and neither a context nor a
\* review session.
C24_RegistrationStartsClean ==
  [][ Registration(last') =>
        /\ users_table'[last'.user_id].present
        /\ ~user_conversations'[last'.user_id].present
        /\ ~user_review_sessions'[last'.user_id].present
        /\ OthersKeepMaps ]_vars

\* a user whose row was deleted registers again while holding a context and
\* a review session, and another user holds a context and a review session
C24_Witness ==
  /\ Registration(last)
  /\ last.conv.present /\ last.review.present
  /\ ~user_conversations[last.user_id].present
  /\ \E user_id \in DOMAIN user_conversations \ {last.user_id} :
       user_conversations[user_id].present /\ user_review_sessions[user_id].present

(***************************************************************************)
(* C25: the review session is read and deleted in one piece                *)
(***************************************************************************)
\* C25: when a review-end handler deletes the user's review session, the
\* session is there and is the one the handler read: no other event of the
\* user has deleted or replaced it between the read and the del.
C25_SnapshotConsumedAtomically ==
  last.op = "review_end" =>
    /\ last.review.present
    /\ last.review = last.read

(***************************************************************************)
(* C26: the order of the overview                                          *)
(***************************************************************************)
\* an overview was computed for a table with rows
Projected == last.op = "generate_course_overview_text" /\ last.videos # <<>>

IsHeader(l) == l.line \in {"level", "current level"}

IsVideoLine(l) == l.line = "video"

\* the level headers of a text, in its order
Headers(out) == SelectSeq(out, IsHeader)

Recognized(level) == level \in {"Entry", "Beginner", "Intermediate", "Advanced"}

\* place of a recognized level in the progression
Rank(level) ==
  CASE level = "Entry" -> 1
    [] level = "Beginner" -> 2
    [] level = "Intermediate" -> 3
    [] level = "Advanced" -> 4

\* index of the first row of the level in the catalog
FirstMet(videos, level) ==
  CHOOSE i \in DOMAIN videos :
    /\ videos[i].level = level
    /\ \A j \in 1..(i - 1) : videos[j].level # level

\* level a is listed before level b
ListedBefore(videos, a, b) ==
  IF Recognized(a) /\ Recognized(b) THEN Rank(a) < Rank(b)
  ELSE IF Recognized(a) THEN TRUE
  ELSE IF Recognized(b) THEN FALSE
  ELSE FirstMet(videos, a) < FirstMet(videos, b)

\* number of elements of a sequence that satisfy Test
CountRows(videos, level, video_number) ==
  Cardinality({i \in DOMAIN videos :
                 videos[i].level = level /\ videos[i].video_number = video_number})

CountLines(out, level, video_number) ==
  Cardinality({i \in DOMAIN out :
                 /\ IsVideoLine(out[i])
                 /\ out[i].level = level /\ out[i].video_number = video_number})

\* C26: the overview lists every level of the catalog once: the recognized
\* levels in the order Entry, Beginner, Intermediate, Advanced, then the
\* unrecognized ones in the order they are first met in the catalog; under
\* each level's header stand the videos of that level, one line per row, in
\* ascending video_number.
C26_OverviewOrder ==
  Projected =>
    LET out == last.out
        H == Headers(out)
    IN /\ \A i \in DOMAIN H, j \in DOMAIN H :
            i < j => ListedBefore(last.videos, H[i].level, H[j].level)
       /\ {H[i].level : i \in DOMAIN H} = {last.videos[i].level : i \in DOMAIN last.videos}
       /\ \A i \in DOMAIN out :
            IsVideoLine(out[i]) =>
              /\ i > 1
              /\ out[i - 1].level = out[i].level
              /\ \/ IsHeader(out[i - 1])
                 \/ IsVideoLine(out[i - 1]) /\ out[i - 1].video_number <= out[i].video_number
       /\ \A v \in VideoRows :
            CountLines(out, v.level, v.video_number)
              = CountRows(last.videos, v.level, v.video_number)

\* a catalog that meets two unrecognized levels, the second one first with
\* its videos in descending order, before a recognized level
C26_Witness ==
  /\ Projected
  /\ last.videos = << [id |-> "rec", level |-> "Extra", video_number |-> 2],
                      [id |-> "rec", level |-> "Bonus", video_number |-> 1],
                      [id |-> "rec", level |-> "Advanced", video_number |-> 1] >>
  /\ Len(Headers(last.out)) = 3
  /\ Headers(last.out)[1].level = "Advanced"
  /\ Headers(last.out)[2].level = "Extra"

(***************************************************************************)
(* C27: the status of every video                                          *)
(***************************************************************************)
\* C27: for a user at a recognized level, every video of a recognized level
\* is completed if its level is before the user's in the progression,
\* upcoming if it is after, and in the user's level completed, current or
\* upcoming as its video_number is below, at or above the user's, whether
\* the catalog has a video of the user's level or not.
C27_StatusByProgression ==
  (Projected /\ Recognized(last.user_level)) =>
    \A i \in DOMAIN last.out :
      (IsVideoLine(last.out[i]) /\ Recognized(last.out[i].level)) =>
        last.out[i].status =
          (IF Rank(last.out[i].level) < Rank(last.user_level) THEN "completed"
           ELSE IF Rank(last.out[i].level) > Rank(last.user_level) THEN "upcoming"
           ELSE IF last.out[i].video_number < last.current_video_number THEN "completed"
           ELSE IF last.out[i].video_number = last.current_video_number THEN "current"
           ELSE "upcoming")

(***************************************************************************)
(* C28: the progress line                                                  *)
(***************************************************************************)
ProgressLine == last.out[Len(last.out)]

CompletedLines ==
  Cardinality({i \in DOMAIN last.out :
                 IsVideoLine(last.out[i]) /\ last.out[i].status = "completed"})

\* C28 (as stated): the progress line shows the number of completed videos
\* of the whole catalog and the percentage floor(100 * completed / total).
C28_PercentageTruncated ==
  Projected =>
    /\ ProgressLine.line = "progress"
    /\ ProgressLine.video_number = CompletedLines
    /\ ProgressLine.status = (100 * CompletedLines) \div Len(last.videos)

\* C28 (amended): the progress line shows the number of completed videos of
\* the whole catalog and the integer nearest to 100 * completed / total.
C28_PercentageRounded ==
  Projected =>
    LET completed == CompletedLines
        total == Len(last.videos)
        shown == ProgressLine.status
        diff == 100 * completed - shown * total
    IN /\ ProgressLine.line = "progress"
       /\ ProgressLine.video_number = completed
       /\ 2 * diff <= total /\ 2 * (0 - diff) <= total

\* two of three videos completed: 67 is shown
C28_Witness ==
  /\ Projected
  /\ Len(last.videos) = 3 /\ CompletedLines = 2
  /\ ProgressLine.status = 67

(***************************************************************************)
(* C29: when a review session exists                                       *)
(***************************************************************************)
\* the selection of an existing lesson as a jump, not a review
JumpSelected(ev) ==
  /\ ev.op = "select_video" /\ ~ev.is_review /\ ev.user.present
  /\ find_video_by_id(ev.video_record_id) # NoVideo

\* the position a review session gives back
OriginalPosition(review_session) ==
  <<review_session.original_level, review_session.original_video_number>>

\* the event left no review session behind
NoSnapshotAfter(ev) == ~user_review_sessions[ev.user_id].present

\* C29: a user who has a review session is at a lesson other than the
\* position the session gives back, and after an advance or a jump that is
\* no review the user has no review session.
C29_SnapshotOnlyDuringReview ==
  /\ \A user_id \in Users :
       user_review_sessions[user_id].present
         => Position(users_table[user_id]) # OriginalPosition(user_review_sessions[user_id])
  /\ (AdvanceEvent(last) \/ JumpSelected(last)) => NoSnapshotAfter(last)

C31_OneEventAtATime ==
  [][\A user_id \in Users :
       (suspended[user_id] # <<>> /\ last'.user_id = user_id)
         => last'.op = "review_end"]_vars

(***************************************************************************)
(* C32: the persisted level never moves to an earlier tier                 *)
(***************************************************************************)
\* the user's row has left the placement test
PlacedRow(user_id) ==
  /\ users_table[user_id].present
  /\ users_table[user_id].state # PLACEMENT_TEST

\* C32: once the placement has assigned a level, every change of the level
\* in the user's row moves it to the same or a later tier of level_order.
C32_LevelNeverMovesBack ==
  [][\A user_id \in Users :
       (PlacedRow(user_id) /\ users_table'[user_id].present)
         => Rank(users_table'[user_id].level) >= Rank(users_table[user_id].level)]_vars

Created(user_id, hit) ==
  create_user(Context(user_id, get_user(user_id, hit)), user_id, hit,
              USER_LEVELS.ENTRY, 0, PLACEMENT_TEST)

SignalInPlacement(ev) ==
  /\ ev.op \in {"ready_for_video", "next_video", "select_video"}
  /\ ev.user.present /\ ev.user.state = PLACEMENT_TEST

\* C35: a 'ready', 'next video' or 'select video' signal of a user in the
\* placement test presents no lesson and leaves the user's level,
\* video_number and state as they are.
C35_SignalsInPlacementChangeNothing ==
  SignalInPlacement(last) =>
    /\ \A i \in DOMAIN last.out : last.out[i].kind # "lesson"
    /\ users_table[last.user_id] = last.row
    /\ get_user_cache[last.user_id] = last.user

(***************************************************************************)
(* C36: "Verstanden!" after the overview                                   *)
(***************************************************************************)
\* "Verstanden!" of a user the lookup finds in CourseOverview, no review
UnderstoodInOverview(ev) ==
  /\ ev.op = "message" /\ ev.text = UNDERSTOOD_BUTTON
  /\ ev.user.present /\ ev.user.state = COURSE_OVERVIEW
  /\ ~ev.review.present

\* C36: "Verstanden!" sent in CourseOverview advances the user as it does in
\* ChatMode: the start of the next lesson is announced and the advanced
\* position is persisted.
C36_UnderstoodAdvancesFromOverview ==
  UnderstoodInOverview(last) =>
    /\ Sent(last, "reply", "NEXT_VIDEO_START")
    /\ AdvancePersisted(last)

(***************************************************************************)
(* C37: the context belongs to the lesson the user is at                   *)
(***************************************************************************)
\* C37: while a user's row is in WaitingForResponse or ChatMode and the user
\* has a conversation context, the context is bound to the video at the
\* row's (level, video_number).
C37_ContextBoundToCurrentVideo ==
  \A user_id \in DOMAIN users_table :
    LET row == users_table[user_id]
        context == user_conversations[user_id]
    IN (row.present /\ row.state \in {WAITING_FOR_RESPONSE, CHAT_MODE} /\ context.present)
         => context.video_record_id = get_video_info(row.level, row.video_number).id

(***************************************************************************)
(* C38: a handler dispatches on what the record store holds                *)
(***************************************************************************)
\* an inbound event of a user the lookup has found
Dispatched(ev) ==
  /\ ev.op \in {"start", "message", "ready_for_video", "next_video", "select_video"}
  /\ ev.user.present

\* C38: the record a handler dispatches on (the result of the lookup at the
\* start of the event) equals the user's row, which holds what was written
\* last with success: a change of the in-memory copy that was not written,
\* or whose write failed, is not seen by a later event.
C38_LookupReturnsPersistedValues ==
  Dispatched(last) => last.user = last.row

(***************************************************************************)
(* C39: the review session and the write that restores the position       *)
(***************************************************************************)
\* the write of the handler of ev has failed
WriteFailed(ev) == \E i \in DOMAIN ev.out : ev.out[i].kind = "update_user_failed"

\* C39: when "Verstanden!" ends a review and the write that restores the
\* original position fails, the user's review session is kept as it was.
C39_SnapshotKeptWhenRestoreFails ==
  (ReviewEnded(last) /\ WriteFailed(last))
    => user_review_sessions[last.user_id] = last.review

(***************************************************************************)
(* C40: the buttons of the overview keyboard                               *)
(***************************************************************************)
KeyboardBuilt == last.op = "create_course_overview_keyboard"

\* the lesson is at or before the position the keyboard is built for
AtOrBefore(v, user_level, current_video_number) ==
  \/ Rank(v.level) < Rank(user_level)
  \/ v.level = user_level /\ v.video_number <= current_video_number

HasButton(out, v) == \E j \in DOMAIN out : out[j].video_record_id = v.id

\* C40: the keyboard holds a button for a lesson of the table exactly when
\* the lesson is at or before the user's position: every video of an
\* earlier level, the videos of the user's level up to the current number,
\* and no upcoming lesson, whatever the table holds.
C40_ButtonsUpToThePosition ==
  KeyboardBuilt =>
    \A i \in DOMAIN last.videos :
      HasButton(last.out, last.videos[i])
        <=> AtOrBefore(last.videos[i], last.user_level, last.current_video_number)

====
